---- MODULE Spec2Model ----
(***************************************************************************)
(* Model of bourbaki.application: the argument source resolution and merge *)
(* protocol of SubCommandFunc (cli/main.py), compute_parse_order           *)
(* (cli/main.py, cli/signatures.py) and the config encoders / decoders of  *)
(* typed_io (base_parsers.py, config/config_encode.py,                     *)
(* config/config_decode.py).                                               *)
(***************************************************************************)
EXTENDS Integers, Sequences, FiniteSets, TLC

(***************************************************************************)
(* Generic helpers: optional values are sequences of length at most one    *)
(* (<<>> is Python's None / an absent value), mappings are functions.      *)
(***************************************************************************)
None == <<>>

Some(v) == <<v>>

EmptyMap == [x \in {} |-> None]

Range(s) == {s[i] : i \in DOMAIN s}

\* all orderings of the elements of S
RECURSIVE Perms(_)
Perms(S) ==
    IF S = {} THEN {<<>>}
    ELSE UNION {{<<x>> \o p : p \in Perms(S \ {x})} : x \in S}

\* sequences without repetition over the subsets of S
Arrangements(S) == UNION {Perms(T) : T \in SUBSET S}

\* dict.update / {**d, **e}: the entries of e override those of d
Update(d, e) ==
    [k \in DOMAIN d \cup DOMAIN e |-> IF k \in DOMAIN e THEN e[k] ELSE d[k]]

\* {k: v for k, v in d.items() if k not in drop}
Without(d, drop) == [k \in DOMAIN d \ drop |-> d[k]]

(***************************************************************************)
(* Source tags: ArgSource (typed_io/main.py) and the DEFAULTS              *)
(* pseudo-source (cli/main.py).                                            *)
(***************************************************************************)
CLI == "command line"

CONFIG == "configuration file"

ENV == "environment variables"

DEFAULTS == "function defaults"

ArgSource == {CLI, CONFIG, ENV}

(***************************************************************************)
(* inspect.Parameter kinds                                                 *)
(***************************************************************************)
POSITIONAL_OR_KEYWORD == "POSITIONAL_OR_KEYWORD"

KEYWORD_ONLY == "KEYWORD_ONLY"

VAR_POSITIONAL == "VAR_POSITIONAL"

VAR_KEYWORD == "VAR_KEYWORD"

(***************************************************************************)
(* State.  The first group is fixed when the SubCommandFunc is built       *)
(* (SubCommandFunc.__init__) or belongs to the process (os.environ); the   *)
(* second group is the progress of one call of SubCommandFunc.execute;     *)
(* the third group holds the inputs and results of the pure functions      *)
(* that are checked on their own (compute_parse_order, config round trip); *)
(* the fourth group holds the objects that outlive a call: the TypedIO     *)
(* cache with the threads that use it, and the subcommand registry of a    *)
(* CommandLineInterface.                                                   *)
(***************************************************************************)
VARIABLES
    signature,            \* cli_sig.parameters: sequence of parameter records
    output_handler,       \* TRUE iff self.output_handler is not None
    lookup_order,         \* self.lookup_order (validated arg_lookup_order)
    parse_order,          \* self.parse_order
    parse_env,            \* self.parse_env: parameter name -> variable name
    parse_config_as_cli,  \* self.parse_config_as_cli
    typecheck,            \* self.typecheck
    ignore_in_config,     \* self.ignore_in_config
    environ,              \* os.environ
    pc,                   \* position inside execute / prepare_args_kwargs
    handle_output,        \* argument handle_output of execute
    lookup,               \* the dict lookup of prepare_args_kwargs
    eff_order,            \* the local lookup_order of prepare_args_kwargs
    sources,              \* the list sources handed to NamedChainMap
    values,               \* the list values of prepare_args_kwargs
    ix,                   \* number of entries of values already decoded
    final_args,
    final_kwargs,
    final_output_args,
    final_output_kwargs,
    parse_log,            \* parser applications so far, in order
    calls,                \* invocations of func / output_handler, in order
    error,                \* the exception that left execute, if any
    result,               \* the value returned by execute, if any
    fn,                   \* which pure function a pure-function run applies
    fn_in,                \* its input
    fn_out,               \* its output
    lru_cache,            \* the cache of TypedIO.__new__: key -> object
    instance_dict,        \* object -> its __dict__
    threads,              \* thread -> its position and local variables
    subcommands,          \* CommandLineInterface.subcommands
    registrations,        \* the calls of _set_subcommand so far, in order
    interface,            \* further fields of the CommandLineInterface
    runs                  \* the calls of CommandLineInterface.run so far

cmd_vars == <<signature, output_handler, lookup_order, parse_order, parse_env,
              parse_config_as_cli, typecheck, ignore_in_config, environ>>

run_vars == <<pc, handle_output, lookup, eff_order, sources, values, ix,
              final_args, final_kwargs, final_output_args,
              final_output_kwargs, parse_log, calls, error, result>>

fn_vars == <<fn, fn_in, fn_out>>

obj_vars == <<lru_cache, instance_dict, threads, subcommands, registrations,
                 interface, runs>>

vars == <<cmd_vars, run_vars, fn_vars, obj_vars>>

(***************************************************************************)
(* Signatures.  A parameter record holds name, kind, annotation (None for  *)
(* Parameter.empty), default (None for Parameter.empty) and whether the    *)
(* parameter belongs to the output handler.                                *)
(***************************************************************************)
Prm(name, kind, annotation, default, output) ==
    [name |-> name, kind |-> kind, annotation |-> annotation,
     default |-> default, output |-> output]

ParamNames(sig) == {sig[i].name : i \in DOMAIN sig}

ParamOf(sig, name) == sig[CHOOSE i \in DOMAIN sig : sig[i].name = name]

\* self.output_param_names
OutputParamNames(sig) == {sig[i].name : i \in {j \in DOMAIN sig : sig[j].output}}

\* the function's own parameters / the output handler's parameters
FuncSig(sig) == SelectSeq(sig, LAMBDA p : ~p.output)

OutputSig(sig) == SelectSeq(sig, LAMBDA p : p.output)

\* leading_positionals(parameters, names_only=True)
RECURSIVE LeadingPositionals(_)
LeadingPositionals(sig) ==
    IF sig = <<>> \/ sig[1].kind # POSITIONAL_OR_KEYWORD
    THEN <<>>
    ELSE <<sig[1].name>> \o LeadingPositionals(Tail(sig))

\* self.defaults
Defaults(sig) ==
    LET withDefault == {i \in DOMAIN sig :
                            \/ sig[i].default # None
                            \/ sig[i].kind \in {VAR_POSITIONAL, VAR_KEYWORD}}
        nameIx(n) == CHOOSE i \in withDefault : sig[i].name = n
    IN  [n \in {sig[i].name : i \in withDefault} |->
            IF sig[nameIx(n)].default # None THEN sig[nameIx(n)].default[1]
            ELSE IF sig[nameIx(n)].kind = VAR_POSITIONAL THEN <<>>
            ELSE EmptyMap]

(***************************************************************************)
(* Collecting the sources (prepare_args_kwargs, first part)                *)
(***************************************************************************)
\* self.config_subsections of the modelled command: config_subsections=True
\* gives the single section named after the command
config_subsections == <<"cmd">>

\* ChainMap of confs: the first mapping holding a key supplies it
RECURSIVE ChainMapOf(_)
ChainMapOf(maps) ==
    IF maps = <<>> THEN EmptyMap
    ELSE Update(ChainMapOf(Tail(maps)), Head(maps))

\* [get_in(section, config) for section in sections if found]
RECURSIVE FoundSections(_, _)
FoundSections(sections, doc) ==
    IF sections = <<>> THEN <<>>
    ELSE (IF Head(sections) \in DOMAIN doc THEN <<doc[Head(sections)]>> ELSE <<>>)
         \o FoundSections(Tail(sections), doc)

\* SubCommandFunc.get_conf: config is None or Some(document), a document
\* maps section names to str -> value mappings
GetConf(config, sections, ignore) ==
    IF config = None THEN None
    ELSE IF sections = <<>> THEN None
    ELSE LET confs == FoundSections(sections, config[1])
             conf  == IF Len(confs) > 1 THEN ChainMapOf(confs)
                      ELSE IF confs = <<>> THEN EmptyMap
                      ELSE confs[1]
         IN  IF DOMAIN conf # {} /\ ignore # {}
             THEN Some(Without(conf, ignore))
             ELSE Some(conf)

\* the parameters for which get_env stores an entry: env_name in os.environ
EnvHits(penv, os_environ) == {a \in DOMAIN penv : penv[a] \in DOMAIN os_environ}

\* the variable get_env reads for parameter arg_name whose declared
\* variable is env_name: the code reads os.environ[arg_name]
EnvKeyRead(arg_name, env_name) == arg_name

\* the entries of EnvHits whose read raises KeyError
EnvKeyErrors(penv, os_environ) ==
    {a \in EnvHits(penv, os_environ) : EnvKeyRead(a, penv[a]) \notin DOMAIN os_environ}

\* SubCommandFunc.get_env, when no read raises
GetEnv(penv, os_environ) ==
    IF DOMAIN penv = {} THEN None
    ELSE Some([a \in EnvHits(penv, os_environ) |-> os_environ[EnvKeyRead(a, penv[a])]])

\* cli = {name: value for name, value in cli.items() if value is not missing};
\* an argparse namespace entry is None here when it holds the missing marker
CliValues(namespace) ==
    [n \in {m \in DOMAIN namespace : namespace[m] # None} |-> namespace[n][1]]

\* _validate_lookup_order: the tags must be distinct
\* ArgSource members; the order is returned as the caller gave it
ValidateLookupOrder(order) == order

\* variant: CLI is moved to the front whatever the caller's order
EffectiveLookupOrderCliFirst(order) ==
    <<CLI>> \o SelectSeq(order, LAMBDA s : s # CLI) \o <<DEFAULTS>>

\* lookup_order = (CLI, *self.lookup_order, DEFAULTS) if CLI not in
\* self.lookup_order else (self.lookup_order..., DEFAULTS)
EffectiveLookupOrder(order) ==
    IF CLI \notin Range(order) THEN <<CLI>> \o order \o <<DEFAULTS>>
    ELSE order \o <<DEFAULTS>>

\* truth value of a namespace in "if ns:": None and {} are false
Truthy(ns) == ns # None /\ DOMAIN ns[1] # {}

\* variant: the non-empty namespaces in the order of the keys of the dict
\* lookup instead of the order of lookup_order
SourcesInDictOrder(order, lk) ==
    LET kept == SelectSeq(<<CLI, ENV, CONFIG, DEFAULTS>>,
                          LAMBDA s : s \in Range(order) /\ Truthy(lk[s]))
    IN  [i \in 1..Len(kept) |-> [source |-> kept[i], ns |-> lk[kept[i]][1]]]

\* sources: the (source, ns) pairs of the non-empty namespaces, in order
RECURSIVE Sources(_, _)
Sources(order, lk) ==
    IF order = <<>> THEN <<>>
    ELSE (IF Truthy(lk[Head(order)])
          THEN <<[source |-> Head(order), ns |-> lk[Head(order)][1]]>>
          ELSE <<>>) \o Sources(Tail(order), lk)

\* NamedChainMap.get_with_name(name, default): the tag and the value of the
\* first mapping that holds name, None when no mapping holds it
RECURSIVE GetWithName(_, _)
GetWithName(srcs, name) ==
    IF srcs = <<>> THEN None
    ELSE IF name \in DOMAIN Head(srcs).ns
         THEN Some([name |-> name, source |-> Head(srcs).source,
                    value |-> Head(srcs).ns[name]])
         ELSE GetWithName(Tail(srcs), name)

\* values: (name, source, value) for the names of order found in a source
RECURSIVE FoundValues(_, _)
FoundValues(srcs, order) ==
    IF order = <<>> THEN <<>>
    ELSE GetWithName(srcs, Head(order)) \o FoundValues(srcs, Tail(order))

\* variant: the lookup loop stops at the first name that no source holds
MissingNamesFirstOnly(srcs, order) ==
    LET absent == SelectSeq(order, LAMBDA n : GetWithName(srcs, n) = None)
    IN  IF absent = <<>> THEN <<>> ELSE <<absent[1]>>

\* missing_: the names of order that no source holds, in order
RECURSIVE MissingNames(_, _)
MissingNames(srcs, order) ==
    IF order = <<>> THEN <<>>
    ELSE (IF GetWithName(srcs, Head(order)) = None THEN <<Head(order)>> ELSE <<>>)
         \o MissingNames(srcs, Tail(order))

(***************************************************************************)
(* Decoding (prepare_args_kwargs, second part).  Raw values are atoms      *)
(* (strings), sequences of atoms (for *args) or mappings of atoms (for     *)
(* **kwargs).                                                              *)
(* The parsers of typed_io are type-directed and opaque to                 *)
(* prepare_args_kwargs: a decoded atom records the parser that produced it *)
(* and the raw value it was produced from; the parser of a *args           *)
(* parameter (Tuple[T, ...]) and of a **kwargs parameter (Dict[str, T])    *)
(* decodes element by element.                                             *)
(***************************************************************************)
\* a raw atom no cli parser, config decoder or env parser accepts, and no
\* instance of any annotation
BadAtom == "bad"

\* variant: a value of the defaults is parsed like a command line value
ParserForSourceParsingDefaults(source) ==
    IF source = CONFIG THEN "config_decoder"
    ELSE IF source = ENV THEN "env_parser"
    ELSE "cli_parser"

\* TypedIO.parser_for_source
ParserForSource(source) ==
    IF source = CLI THEN "cli_parser"
    ELSE IF source = CONFIG THEN "config_decoder"
    ELSE IF source = ENV THEN "env_parser"
    ELSE "identity"

\* variant: parse_config_as_cli selects the cli parser for every source
ParserForAsCliAnySource(source, name, as_cli) ==
    IF name \in as_cli THEN "cli_parser" ELSE ParserForSource(source)

\* if source == CONFIG and name in self.parse_config_as_cli: tio.cli_parser
\* else: tio.parser_for_source(source)
ParserFor(source, name, as_cli) ==
    IF source = CONFIG /\ name \in as_cli THEN "cli_parser"
    ELSE ParserForSource(source)

Decoded(parser, raw) == [by |-> parser, raw |-> raw]

\* the atoms of a raw value of a parameter of the given kind
RawAtoms(kind, value) ==
    IF kind \in {VAR_POSITIONAL, VAR_KEYWORD} THEN Range(value) ELSE {value}

\* parser(value) raises: every parser but identity rejects BadAtom
ParserRaises(parser, kind, value) ==
    parser # "identity" /\ BadAtom \in RawAtoms(kind, value)

\* parsed = parser(value)
ApplyParser(parser, kind, value) ==
    IF kind \in {VAR_POSITIONAL, VAR_KEYWORD}
    THEN [k \in DOMAIN value |-> Decoded(parser, value[k])]
    ELSE Decoded(parser, value)

\* isinstance_generic(parsed, tio.type_)
IsInstanceGeneric(parsed, kind) ==
    IF kind \in {VAR_POSITIONAL, VAR_KEYWORD}
    THEN \A k \in DOMAIN parsed : parsed[k].raw # BadAtom
    ELSE parsed.raw # BadAtom

\* exceptions: type, message text and what the message mentions
Exc(type, text, names, vals, types) ==
    [type |-> type, text |-> text, names |-> names, vals |-> vals, types |-> types]

NoError == Exc("none", "", <<>>, <<>>, <<>>)

\* ValueError("could not find value for args {} of command `{}` in any of {}"
\*            .format(missing_, ...))
MissingArgsError(missing_) ==
    Exc("ValueError", "could not find value for args", missing_, <<>>, <<>>)

\* TypeError("parsed value {} for arg {} is not an instance of {}")
NotInstanceError(parsed, name, annotation) ==
    Exc("TypeError", "parsed value is not an instance", <<name>>, <<parsed>>,
        <<annotation>>)

\* logging.Logger.exception(msg, *args, **kwargs) called with the given
\* positional arguments: msg is required, so a call without it raises
LoggerException(call_args) ==
    IF call_args = <<>>
    THEN Some(Exc("TypeError",
                  "exception() missing 1 required positional argument: 'msg'",
                  <<>>, <<>>, <<>>))
    ELSE None

\* try: raise TypeError(...)  except Exception as e: self.logger.exception();
\* raise e  -- the exception that leaves the except block
TypecheckFailure(parsed, name, annotation) ==
    LET e      == NotInstanceError(parsed, name, annotation)
        logged == LoggerException(<<>>)
    IN  IF logged # None THEN logged[1] ELSE e

\* the typecheck of one decoded parameter fails
TypecheckFails(name, param, parsed, checked) ==
    /\ name \in checked
    /\ param.annotation # None
    /\ ~IsInstanceGeneric(parsed, param.kind)

\* kwargs[name] = parsed / kwargs.update(parsed)
StoreKwargs(kwargs, name, kind, parsed) ==
    IF kind = VAR_POSITIONAL THEN kwargs
    ELSE IF kind = VAR_KEYWORD THEN Update(kwargs, parsed)
    ELSE Update(kwargs, [n \in {name} |-> parsed])

\* the named positionals popped from kwargs, in order, then final_args
PopPositionals(kwargs, names, args) ==
    [i \in 1..Len(names) |-> kwargs[names[i]]] \o args

(***************************************************************************)
(* SubCommandFunc.execute, step by step                                    *)
(***************************************************************************)
\* the value the command function returns
RetVal == Decoded("func", "ret")

CallOf(target, args, kwargs) == [target |-> target, args |-> args, kwargs |-> kwargs]

ParseOf(name, source, parser, raw) ==
    [name |-> name, source |-> source, parser |-> parser, raw |-> raw]

\* execute is entered: get_conf, get_env, the cli filter, the effective
\* order and the list of sources (prepare_args_kwargs up to NamedChainMap)
Collect(namespace, config, h_o) ==
    /\ pc = "idle"
    /\ EnvKeyErrors(parse_env, environ) = {}
    /\ handle_output' = h_o
    /\ lookup' = (CLI :> Some(CliValues(namespace)))
                 @@ (ENV :> GetEnv(parse_env, environ))
                 @@ (CONFIG :> GetConf(config, config_subsections, ignore_in_config))
                 @@ (DEFAULTS :> Some(Defaults(signature)))
    /\ eff_order' = EffectiveLookupOrder(lookup_order)
    /\ sources' = Sources(eff_order', lookup')
    /\ pc' = "lookup"
    /\ UNCHANGED <<values, ix, final_args, final_kwargs, final_output_args,
                   final_output_kwargs, parse_log, calls, error, result>>
    /\ UNCHANGED <<cmd_vars, fn_vars, obj_vars>>

\* get_env raises KeyError on os.environ[arg_name]
CollectRaises(h_o) ==
    /\ pc = "idle"
    /\ \E a \in EnvKeyErrors(parse_env, environ) :
           error' = Exc("KeyError", "", <<a>>, <<>>, <<>>)
    /\ handle_output' = h_o
    /\ pc' = "raised"
    /\ UNCHANGED <<lookup, eff_order, sources, values, ix, final_args,
                   final_kwargs, final_output_args, final_output_kwargs,
                   parse_log, calls, result>>
    /\ UNCHANGED <<cmd_vars, fn_vars, obj_vars>>

\* the lookup loop finds every name of the parse order
Lookup ==
    /\ pc = "lookup"
    /\ MissingNames(sources, parse_order) = <<>>
    /\ values' = FoundValues(sources, parse_order)
    /\ pc' = "decode"
    /\ UNCHANGED <<handle_output, lookup, eff_order, sources, ix, final_args,
                   final_kwargs, final_output_args, final_output_kwargs,
                   parse_log, calls, error, result>>
    /\ UNCHANGED <<cmd_vars, fn_vars, obj_vars>>

\* variant: one loop that decodes each value as soon as it is found, so that
\* the values found before the first missing name are decoded before the
\* ValueError
LookupRaisesAfterDecoding ==
    /\ pc = "lookup"
    /\ MissingNames(sources, parse_order) # <<>>
    /\ error' = MissingArgsError(MissingNames(sources, parse_order))
    /\ values' = FoundValues(sources, parse_order)
    /\ parse_log' =
           [i \in DOMAIN values' |->
               ParseOf(values'[i].name, values'[i].source,
                       ParserFor(values'[i].source, values'[i].name, parse_config_as_cli),
                       values'[i].value)]
    /\ pc' = "raised"
    /\ UNCHANGED <<handle_output, lookup, eff_order, sources, ix, final_args,
                   final_kwargs, final_output_args, final_output_kwargs,
                   calls, result>>
    /\ UNCHANGED <<cmd_vars, fn_vars, obj_vars>>

\* the lookup loop leaves names without a value: ValueError
LookupRaises ==
    /\ pc = "lookup"
    /\ MissingNames(sources, parse_order) # <<>>
    /\ error' = MissingArgsError(MissingNames(sources, parse_order))
    /\ values' = FoundValues(sources, parse_order)
    /\ pc' = "raised"
    /\ UNCHANGED <<handle_output, lookup, eff_order, sources, ix, final_args,
                   final_kwargs, final_output_args, final_output_kwargs,
                   parse_log, calls, result>>
    /\ UNCHANGED <<cmd_vars, fn_vars, obj_vars>>

\* the entry of values the decode loop handles next, its parameter, parser
NextEntry == values[ix + 1]

NextParam == ParamOf(signature, NextEntry.name)

NextParser == ParserFor(NextEntry.source, NextEntry.name, parse_config_as_cli)

NextParsed == ApplyParser(NextParser, NextParam.kind, NextEntry.value)

NextIsOutput == NextEntry.name \in OutputParamNames(signature)

NextLogged ==
    Append(parse_log, ParseOf(NextEntry.name, NextEntry.source, NextParser,
                              NextEntry.value))

\* one iteration of the decode loop that completes
Decode ==
    /\ pc = "decode"
    /\ ix < Len(values)
    /\ ~ParserRaises(NextParser, NextParam.kind, NextEntry.value)
    /\ ~TypecheckFails(NextEntry.name, NextParam, NextParsed, typecheck)
    /\ parse_log' = NextLogged
    /\ IF output_handler /\ NextIsOutput
       THEN /\ final_output_kwargs' =
                  StoreKwargs(final_output_kwargs, NextEntry.name, NextParam.kind,
                              NextParsed)
            /\ final_output_args' =
                  IF NextParam.kind = VAR_POSITIONAL THEN NextParsed
                  ELSE final_output_args
            /\ UNCHANGED <<final_args, final_kwargs>>
       ELSE /\ final_kwargs' =
                  StoreKwargs(final_kwargs, NextEntry.name, NextParam.kind, NextParsed)
            /\ final_args' =
                  IF NextParam.kind = VAR_POSITIONAL /\ ~NextIsOutput THEN NextParsed
                  ELSE final_args
            /\ final_output_args' =
                  IF NextParam.kind = VAR_POSITIONAL /\ NextIsOutput THEN NextParsed
                  ELSE final_output_args
            /\ UNCHANGED final_output_kwargs
    /\ ix' = ix + 1
    /\ UNCHANGED <<pc, handle_output, lookup, eff_order, sources, values, calls,
                   error, result>>
    /\ UNCHANGED <<cmd_vars, fn_vars, obj_vars>>

\* parser(value) raises
DecodeParserRaises ==
    /\ pc = "decode"
    /\ ix < Len(values)
    /\ ParserRaises(NextParser, NextParam.kind, NextEntry.value)
    /\ parse_log' = NextLogged
    /\ error' = Exc("TypedInputError", "", <<NextEntry.name>>, <<>>, <<>>)
    /\ pc' = "raised"
    /\ UNCHANGED <<handle_output, lookup, eff_order, sources, values, ix,
                   final_args, final_kwargs, final_output_args,
                   final_output_kwargs, calls, result>>
    /\ UNCHANGED <<cmd_vars, fn_vars, obj_vars>>

\* the decoded value is not an instance of the declared type
DecodeTypecheckRaises ==
    /\ pc = "decode"
    /\ ix < Len(values)
    /\ ~ParserRaises(NextParser, NextParam.kind, NextEntry.value)
    /\ TypecheckFails(NextEntry.name, NextParam, NextParsed, typecheck)
    /\ parse_log' = NextLogged
    /\ error' = TypecheckFailure(NextParsed, NextEntry.name, NextParam.annotation[1])
    /\ pc' = "raised"
    /\ UNCHANGED <<handle_output, lookup, eff_order, sources, values, ix,
                   final_args, final_kwargs, final_output_args,
                   final_output_kwargs, calls, result>>
    /\ UNCHANGED <<cmd_vars, fn_vars, obj_vars>>

\* self.positional_names and self.output_positional_names
positional_names == LeadingPositionals(FuncSig(signature))

output_positional_names == LeadingPositionals(OutputSig(signature))

\* after the loop: the leading positionals move from kwargs to args
Assemble ==
    /\ pc = "decode"
    /\ ix = Len(values)
    /\ Range(positional_names) \subseteq DOMAIN final_kwargs
    /\ final_args' = PopPositionals(final_kwargs, positional_names, final_args)
    /\ final_kwargs' = Without(final_kwargs, Range(positional_names))
    /\ final_output_args' =
           PopPositionals(final_output_kwargs, output_positional_names,
                          final_output_args)
    /\ final_output_kwargs' =
           Without(final_output_kwargs, Range(output_positional_names))
    /\ pc' = "prepared"
    /\ UNCHANGED <<handle_output, lookup, eff_order, sources, values, ix,
                   parse_log, calls, error, result>>
    /\ UNCHANGED <<cmd_vars, fn_vars, obj_vars>>

\* value = self.func(*args, **kwargs) returns
CallFunc ==
    /\ pc = "prepared"
    /\ calls' = Append(calls, CallOf("func", final_args, final_kwargs))
    /\ pc' = "called"
    /\ UNCHANGED <<handle_output, lookup, eff_order, sources, values, ix,
                   final_args, final_kwargs, final_output_args,
                   final_output_kwargs, parse_log, error, result>>
    /\ UNCHANGED <<cmd_vars, fn_vars, obj_vars>>

\* value = self.func(*args, **kwargs) raises
CallFuncRaises ==
    /\ pc = "prepared"
    /\ calls' = Append(calls, CallOf("func", final_args, final_kwargs))
    /\ error' = Exc("FuncError", "", <<>>, <<>>, <<>>)
    /\ pc' = "raised"
    /\ UNCHANGED <<handle_output, lookup, eff_order, sources, values, ix,
                   final_args, final_kwargs, final_output_args,
                   final_output_kwargs, parse_log, result>>
    /\ UNCHANGED <<cmd_vars, fn_vars, obj_vars>>

\* variant: the handler is called whenever one is registered
HandlesOutputWhenRegistered(h_o, handler) == handler

\* if handle_output and self.output_handler is not None
HandlesOutput(h_o, handler) == h_o /\ handler

HandlerCall ==
    CallOf("output_handler", <<RetVal>> \o final_output_args, final_output_kwargs)

\* the output handler is called and returns; execute returns value
CallHandler ==
    /\ pc = "called"
    /\ HandlesOutput(handle_output, output_handler)
    /\ calls' = Append(calls, HandlerCall)
    /\ result' = Some(RetVal)
    /\ pc' = "returned"
    /\ UNCHANGED <<handle_output, lookup, eff_order, sources, values, ix,
                   final_args, final_kwargs, final_output_args,
                   final_output_kwargs, parse_log, error>>
    /\ UNCHANGED <<cmd_vars, fn_vars, obj_vars>>

\* the output handler is called and raises
CallHandlerRaises ==
    /\ pc = "called"
    /\ HandlesOutput(handle_output, output_handler)
    /\ calls' = Append(calls, HandlerCall)
    /\ error' = Exc("HandlerError", "", <<>>, <<>>, <<>>)
    /\ pc' = "raised"
    /\ UNCHANGED <<handle_output, lookup, eff_order, sources, values, ix,
                   final_args, final_kwargs, final_output_args,
                   final_output_kwargs, parse_log, result>>
    /\ UNCHANGED <<cmd_vars, fn_vars, obj_vars>>

\* no output handling; execute returns value
SkipHandler ==
    /\ pc = "called"
    /\ ~HandlesOutput(handle_output, output_handler)
    /\ result' = Some(RetVal)
    /\ pc' = "returned"
    /\ UNCHANGED <<handle_output, lookup, eff_order, sources, values, ix,
                   final_args, final_kwargs, final_output_args,
                   final_output_kwargs, parse_log, calls, error>>
    /\ UNCHANGED <<cmd_vars, fn_vars, obj_vars>>

(***************************************************************************)
(* compute_parse_order (SubCommandFunc.compute_parse_order and the module  *)
(* level function of cli/signatures.py have the same body).  An explicit   *)
(* parse order is a sequence of names and Ellipsis; param_names is a set,  *)
(* so the order in which its elements are listed is any of its orderings.  *)
(***************************************************************************)
Ellipsis == "..."

\* _validate_parse_order: the entries are returned as a tuple, as given
ValidateParseOrder(order) == order

\* (n not in param_names) or (n is not Ellipsis)
EntryRejected(n, param_names) ==
    (n \notin param_names) \/ (n # Ellipsis)

\* parse_order.index(Ellipsis), 0 when it raises ValueError
EllipsisIx(order) ==
    IF Ellipsis \in Range(order)
    THEN CHOOSE i \in DOMAIN order :
             order[i] = Ellipsis /\ \A j \in 1..(i - 1) : order[j] # Ellipsis
    ELSE 0

\* (h for h in part if h in param_names)
KeepNames(part, param_names) == SelectSeq(part, LAMBDA h : h \in param_names)

\* the lists compute_parse_order may return when it does not raise
ParseOrderValues(po_arg, param_names) ==
    IF po_arg = None THEN Perms(param_names)
    ELSE LET order == ValidateParseOrder(po_arg[1])
             e     == EllipsisIx(order)
             head  == IF e = 0 THEN order ELSE SubSeq(order, 1, e - 1)
             tail  == IF e = 0 THEN <<>> ELSE SubSeq(order, e + 1, Len(order))
             middles == IF e = 0 THEN {<<>>}
                        ELSE Perms((param_names \ Range(head)) \ Range(tail))
         IN  {KeepNames(head, param_names) \o m \o KeepNames(tail, param_names) :
                 m \in middles}

\* the outcomes of compute_parse_order(po_arg, param_names)
ComputeParseOrder(po_arg, param_names) ==
    IF /\ po_arg # None
       /\ \E i \in DOMAIN ValidateParseOrder(po_arg[1]) :
              EntryRejected(ValidateParseOrder(po_arg[1])[i], param_names)
    THEN {[raised |-> "NameError", value |-> <<>>]}
    ELSE {[raised |-> "none", value |-> v] :
             v \in ParseOrderValues(po_arg, param_names)}

\* one call of compute_parse_order
ApplyComputeParseOrder ==
    /\ fn = "compute_parse_order"
    /\ fn_out = None
    /\ \E out \in ComputeParseOrder(fn_in.parse_order, fn_in.param_names) :
           fn_out' = Some(out)
    /\ UNCHANGED <<fn, fn_in>>
    /\ UNCHANGED <<cmd_vars, run_vars, obj_vars>>

(***************************************************************************)
(* Config encoders and decoders (typed_io/config, typed_io/base_parsers).  *)
(* A value is a record of its runtime type t and its content v; a str is   *)
(* the sequence of its characters; a type is a sequence whose first entry  *)
(* is the type's name and whose other entries are its type arguments.      *)
(***************************************************************************)
Val(t, v) == [t |-> t, v |-> v]

DigitChars == <<"0", "1", "2", "3", "4", "5", "6", "7", "8", "9">>

RECURSIVE Digits(_)
Digits(n) ==
    IF n < 10 THEN <<DigitChars[n + 1]>>
    ELSE Digits(n \div 10) \o <<DigitChars[(n % 10) + 1]>>

\* "{:d}".format(n), str(n)
FormatInt(n) == IF n < 0 THEN <<"-">> \o Digits(-n) ELSE Digits(n)

DigitValue(c) == (CHOOSE i \in DOMAIN DigitChars : DigitChars[i] = c) - 1

RECURSIVE DigitsValue(_)
DigitsValue(s) ==
    IF s = <<>> THEN 0
    ELSE 10 * DigitsValue(SubSeq(s, 1, Len(s) - 1)) + DigitValue(s[Len(s)])

\* length of the longest prefix of s that matches -?[0-9]+, 0 when none does
NumberEnd(s) ==
    LET start == IF s # <<>> /\ s[1] = "-" THEN 1 ELSE 0
        ends  == {e \in (start + 1)..Len(s) :
                     \A i \in (start + 1)..e : s[i] \in Range(DigitChars)}
    IN  IF ends = {} THEN 0 ELSE CHOOSE e \in ends : \A f \in ends : f <= e

\* int(s) for a text that matches -?[0-9]+
ParseIntText(s) == IF s[1] = "-" THEN -DigitsValue(Tail(s)) ELSE DigitsValue(s)

IsIntText(s) == s # <<>> /\ NumberEnd(s) = Len(s)

\* s.split(sep) for a one-character separator
RECURSIVE Split(_, _)
Split(s, sep) ==
    IF sep \notin Range(s) THEN <<s>>
    ELSE LET i == CHOOSE k \in DOMAIN s :
                      s[k] = sep /\ \A j \in 1..(k - 1) : s[j] # sep
         IN  <<SubSeq(s, 1, i - 1)>> \o Split(SubSeq(s, i + 1, Len(s)), sep)

\* sep.join(parts)
RECURSIVE Join(_, _)
Join(parts, sep) ==
    IF parts = <<>> THEN <<>>
    ELSE IF Len(parts) = 1 THEN parts[1]
    ELSE parts[1] \o <<sep>> \o Join(Tail(parts), sep)

\* parse_bool
ParseBool(s) ==
    IF s = <<"t", "r", "u", "e">> THEN Some(Val("bool", TRUE))
    ELSE IF s = <<"f", "a", "l", "s", "e">> THEN Some(Val("bool", FALSE))
    ELSE None

\* to_range_config: r is (start, stop, step)
ToRangeConfig(r) ==
    IF r[3] = 1 THEN FormatInt(r[1]) \o <<":">> \o FormatInt(r[2])
    ELSE FormatInt(r[1]) \o <<":">> \o FormatInt(r[2]) \o <<":">> \o FormatInt(r[3])

\* range(start, stop, step): a zero step raises ValueError
MakeRange(start, stop, step) ==
    IF step = 0 THEN None ELSE Some(Val("range", <<start, stop, step>>))

\* parse_range: fullmatch of (-?[0-9]+)([-:,])(-?[0-9]+)(?:\2(-?[0-9]+))?
ParseRange(s) ==
    LET e1    == NumberEnd(s)
        sepOk == e1 > 0 /\ e1 < Len(s) /\ s[e1 + 1] \in {"-", ":", ","}
        rest1 == SubSeq(s, e1 + 2, Len(s))
        e3    == NumberEnd(rest1)
        rest3 == SubSeq(rest1, e3 + 1, Len(rest1))
        g1    == ParseIntText(SubSeq(s, 1, e1))
        g3    == ParseIntText(SubSeq(rest1, 1, e3))
    IN  IF ~sepOk \/ e3 = 0 THEN None
        ELSE IF rest3 = <<>> THEN MakeRange(g1, g3, 1)
        ELSE IF rest3[1] = s[e1 + 1] /\ IsIntText(Tail(rest3))
        THEN MakeRange(g1, g3, ParseIntText(Tail(rest3)))
        ELSE None

RECURSIVE Gcd(_, _)
Gcd(a, b) == IF b = 0 THEN a ELSE Gcd(b, a % b)

Abs(n) == IF n < 0 THEN -n ELSE n

\* fractions.Fraction(n, d): lowest terms, positive denominator
MakeFraction(n, d) ==
    IF d = 0 THEN None
    ELSE LET g  == Gcd(Abs(n), Abs(d))
             sg == IF d < 0 THEN -1 ELSE 1
         IN  Some(Val("Fraction", <<sg * (n \div g), Abs(d) \div g>>))

\* str(frac)
StrFraction(f) ==
    IF f[2] = 1 THEN FormatInt(f[1])
    ELSE FormatInt(f[1]) \o <<"/">> \o FormatInt(f[2])

\* to_config_fraction
ToConfigFraction(f) ==
    IF f[2] = 1 THEN Val("int", f[1]) ELSE Val("str", StrFraction(f))

\* fractions.Fraction(s) for texts "n" and "n/d"
ParseFraction(s) ==
    LET parts == Split(s, "/")
    IN  IF Len(parts) = 1 /\ IsIntText(parts[1])
        THEN MakeFraction(ParseIntText(parts[1]), 1)
        ELSE IF /\ Len(parts) = 2 /\ IsIntText(parts[1]) /\ IsIntText(parts[2])
                /\ parts[2][1] # "-"
        THEN MakeFraction(ParseIntText(parts[1]), ParseIntText(parts[2]))
        ELSE None

\* the enumerations of tests/test_config_decode.py: SomeEnum has members
\* foo = 1, bar = 2, baz = 3; SomeFlag = Flag("SomeFlag", names="foo bar baz")
\* has members foo = 1, bar = 2, baz = 4
Member(name, value) == [name |-> name, value |-> value]

Members(enum) ==
    IF enum = "SomeEnum"
    THEN <<Member(<<"f", "o", "o">>, 1), Member(<<"b", "a", "r">>, 2),
           Member(<<"b", "a", "z">>, 3)>>
    ELSE <<Member(<<"f", "o", "o">>, 1), Member(<<"b", "a", "r">>, 2),
           Member(<<"b", "a", "z">>, 4)>>

\* self.enum(i).name
MemberName(enum, i) ==
    Members(enum)[CHOOSE k \in DOMAIN Members(enum) : Members(enum)[k].value = i].name

\* EnumParser._parse: getattr(self.enum, arg), ValueError when there is no
\* member of that name
EnumParse(enum, arg) ==
    IF \E k \in DOMAIN Members(enum) : Members(enum)[k].name = arg
    THEN Some(Val(enum,
              Members(enum)[CHOOSE k \in DOMAIN Members(enum) :
                                Members(enum)[k].name = arg].value))
    ELSE None

\* EnumParser.config_encode: value.name
EnumConfigEncode(enum, value) == MemberName(enum, value)

\* the loop of FlagParser.config_encode: the powers of two e, 2e, ... whose
\* bit is set in a
RECURSIVE FlagBits(_, _)
FlagBits(a, e) ==
    IF a <= 0 THEN <<>>
    ELSE (IF a % 2 = 1 THEN <<e>> ELSE <<>>) \o FlagBits(a \div 2, 2 * e)

RECURSIVE SumOf(_)
SumOf(S) == IF S = {} THEN 0 ELSE LET x == CHOOSE y \in S : TRUE IN x + SumOf(S \ {x})

\* FlagParser._parse: reduce(operator.or_, (parse(e) for e in arg.split("|")))
FlagParse(enum, arg) ==
    LET parts  == Split(arg, "|")
        parsed == [i \in DOMAIN parts |-> EnumParse(enum, parts[i])]
    IN  IF \E i \in DOMAIN parsed : parsed[i] = None THEN None
        ELSE Some(Val(enum, SumOf(UNION {Range(FlagBits(parsed[i][1].v, 1)) :
                                            i \in DOMAIN parsed})))

\* FlagParser.config_encode
FlagConfigEncode(enum, value) ==
    LET vals == FlagBits(value, 1)
    IN  Join([i \in DOMAIN vals |-> MemberName(enum, vals[i])], "|")

\* FlagParser.config_decode: a str is parsed, a collection of str is parsed
\* entry by entry and or-ed, reduce of an empty collection raises TypeError
FlagConfigDecode(enum, c) ==
    IF c.t = "str" THEN FlagParse(enum, c.v)
    ELSE IF c.t # "list" \/ c.v = <<>> THEN None
    ELSE LET parsed == [i \in DOMAIN c.v |->
                           IF c.v[i].t = "str" THEN FlagParse(enum, c.v[i].v) ELSE None]
         IN  IF \E i \in DOMAIN parsed : parsed[i] = None THEN None
             ELSE Some(Val(enum, SumOf(UNION {Range(FlagBits(parsed[i][1].v, 1)) :
                                                 i \in DOMAIN parsed})))

AtomicTypes == {"bool", "int", "str", "range", "Fraction", "SomeEnum", "SomeFlag"}

\* config_encoder(T)(x); fraction_encoder is the encoder the dispatcher holds
\* for Fraction, which is registered twice (to_config_fraction, then str)
RECURSIVE ConfigEncode(_, _, _)
ConfigEncode(T, x, fraction_encoder) ==
    IF T[1] \in {"bool", "int", "str"} THEN Val(T[1], x.v)
    ELSE IF T[1] = "range" THEN Val("str", ToRangeConfig(x.v))
    ELSE IF T[1] = "Fraction"
         THEN (IF fraction_encoder = "str" THEN Val("str", StrFraction(x.v))
               ELSE ToConfigFraction(x.v))
    ELSE IF T[1] = "SomeEnum" THEN Val("str", EnumConfigEncode(T[1], x.v))
    ELSE IF T[1] = "SomeFlag" THEN Val("str", FlagConfigEncode(T[1], x.v))
    ELSE IF T[1] = "List"
         THEN Val("list", [i \in DOMAIN x.v |->
                              ConfigEncode(T[2], x.v[i], fraction_encoder)])
    ELSE IF T[1] = "Tuple"
         THEN Val("list", [i \in DOMAIN x.v |->
                              ConfigEncode(T[i + 1], x.v[i], fraction_encoder)])
    ELSE Val("dict", [k \in DOMAIN x.v |->
                         ConfigEncode(T[3], x.v[k], fraction_encoder)])

\* config_decoder(T)(c): Some(value), or None when the decoder raises
RECURSIVE ConfigDecode(_, _)
ConfigDecode(T, c) ==
    IF T[1] = "bool"
    THEN (IF c.t = "bool" THEN Some(c)
          ELSE IF c.t = "str" THEN ParseBool(c.v) ELSE None)
    ELSE IF T[1] = "int"
    THEN (IF c.t = "int" THEN Some(c)
          ELSE IF c.t = "str" /\ IsIntText(c.v) THEN Some(Val("int", ParseIntText(c.v)))
          ELSE None)
    ELSE IF T[1] = "str" THEN (IF c.t = "str" THEN Some(c) ELSE None)
    ELSE IF T[1] = "range"
    THEN (IF c.t = "str" THEN ParseRange(c.v)
          ELSE IF c.t = "int" THEN MakeRange(0, c.v, 1)
          ELSE None)
    ELSE IF T[1] = "Fraction"
    THEN (IF c.t = "int" THEN MakeFraction(c.v, 1)
          ELSE IF c.t = "str" THEN ParseFraction(c.v)
          ELSE None)
    ELSE IF T[1] = "SomeEnum"
    THEN (IF c.t = "str" THEN EnumParse(T[1], c.v) ELSE None)
    ELSE IF T[1] = "SomeFlag" THEN FlagConfigDecode(T[1], c)
    ELSE IF T[1] = "List"
    THEN (IF c.t # "list" THEN None
          ELSE LET items == [i \in DOMAIN c.v |-> ConfigDecode(T[2], c.v[i])]
               IN  IF \E i \in DOMAIN items : items[i] = None THEN None
                   ELSE Some(Val("list", [i \in DOMAIN items |-> items[i][1]])))
    ELSE IF T[1] = "Tuple"
    THEN (IF c.t # "list" \/ Len(c.v) # Len(T) - 1 THEN None
          ELSE LET items == [i \in DOMAIN c.v |-> ConfigDecode(T[i + 1], c.v[i])]
               IN  IF \E i \in DOMAIN items : items[i] = None THEN None
                   ELSE Some(Val("tuple", [i \in DOMAIN items |-> items[i][1]])))
    ELSE (IF c.t # "dict" THEN None
          ELSE LET items == [k \in DOMAIN c.v |-> ConfigDecode(T[3], c.v[k])]
               IN  IF \E k \in DOMAIN items : items[k] = None THEN None
                   ELSE Some(Val("dict", [k \in DOMAIN items |-> items[k][1]])))

\* test_roundtrip: encoded = preproc(expected); decoded = postproc(encoded)
ApplyRoundTrip ==
    /\ fn = "round_trip"
    /\ fn_out = None
    /\ LET encoded == ConfigEncode(fn_in.type, fn_in.value, fn_in.fraction_encoder)
       IN  fn_out' = Some([encoded |-> encoded,
                           decoded |-> ConfigDecode(fn_in.type, encoded)])
    /\ UNCHANGED <<fn, fn_in>>
    /\ UNCHANGED <<cmd_vars, run_vars, obj_vars>>

(***************************************************************************)
(* Command line arities (typed_io/cli/cli_nargs_.py).  A type is a         *)
(* sequence whose first entry is its name and whose other entries are its  *)
(* type arguments; a call returns a record of the exception it raised,     *)
(* "none" when it returned, and of its value.                              *)
(***************************************************************************)
Returned(v) == [raised |-> "none", value |-> v]

Raised(e) == [raised |-> e, value |-> None]

\* the nargs field holds None, an int or one of argparse's strings
NoneNargs == [kind |-> "None", n |-> 0, s |-> ""]

IntNargs(n) == [kind |-> "int", n |-> n, s |-> ""]

StrNargs(s) == [kind |-> "str", n |-> 0, s |-> s]

ZERO_OR_MORE == StrNargs("*")

ONE_OR_MORE == StrNargs("+")

OPTIONAL == StrNargs("?")

APPEND == "append"

NoAction == "None"

CLINargsAction(nargs, action) ==
    [class |-> "CLINargsAction", nargs |-> nargs, action |-> action]

normalized_nargs(a) == IF a.nargs = ONE_OR_MORE THEN ZERO_OR_MORE ELSE a.nargs

is_nested(a) == a.action = APPEND

is_variable_length_collection(a) ==
    a.action # NoAction \/ (a.nargs # NoneNargs /\ a.nargs.kind # "int")

is_variable_length(a) == is_variable_length_collection(a) \/ a.nargs = OPTIONAL

\* to_cli_nargs_action applied to a bare nargs value
to_cli_nargs_action(nargs) == CLINargsAction(nargs, NoAction)

\* 1 if nargs is None else nargs
NargsCount(a) == IF a.nargs = NoneNargs THEN 1 ELSE a.nargs.n

\* CLINargsAction.__add__(a, b)
CLINargsAdd(a, b) ==
    IF a.action # b.action THEN Raised("ValueError")
    ELSE LET swap == a.nargs.kind # "str"
             l    == IF swap THEN b ELSE a
             r    == IF swap THEN a ELSE b
         IN  IF l.nargs = ONE_OR_MORE
             THEN Returned(CLINargsAction(ONE_OR_MORE, l.action))
             ELSE IF l.nargs \in {ZERO_OR_MORE, OPTIONAL}
             THEN Returned(CLINargsAction(
                      IF r.nargs \in {ZERO_OR_MORE, OPTIONAL}
                      THEN ZERO_OR_MORE ELSE ONE_OR_MORE, l.action))
             ELSE Returned(CLINargsAction(IntNargs(NargsCount(l) + NargsCount(r)),
                                          l.action))

\* the first step of sum(all_nargs): int 0 + a, which is a.__radd__(0)
SumStart(first) == CLINargsAdd(first, to_cli_nargs_action(IntNargs(0)))

\* sum(all_nargs) continued from the running total acc
RECURSIVE SumFrom(_, _)
SumFrom(acc, rest) ==
    IF acc.raised # "none" \/ rest = <<>> THEN acc
    ELSE SumFrom(CLINargsAdd(acc.value, Head(rest)), Tail(rest))

\* sum(all_nargs) of a non-empty tuple
SumNargs(all_nargs) == SumFrom(SumStart(Head(all_nargs)), Tail(all_nargs))

EllipsisType == <<Ellipsis>>

NoneType == <<"NoneType">>

\* the types resolved by the registration for typing.Any
SingleTokenTypes == {"int", "str", "bool", "range", "Fraction", "SomeEnum", "SomeFlag"}

CollectionTypes == {"List", "Set"}

MappingTypes == {"Mapping", "Dict", "Counter", "ChainMap"}

\* a type the application registers with cli_nargs as CLINargsAction(OPTIONAL)
UserOptional == <<"UserOptional">>

\* get_named_tuple_arg_types of the namedtuple class FooTup(foo: int, bar: str)
NamedTupleArgTypes(t) == IF t = "FooTup" THEN << <<"int">>, <<"str">> >> ELSE <<>>

is_named_tuple_class(t) == t = "FooTup"

\* the exceptions that are instances of CLIIOUndefinedForType
CLIIOUndefinedForTypes ==
    {"CLIIOUndefinedForType", "CLIIOUndefinedForNestedCollectionType",
     "CLIIOUndefinedForNestedTupleType", "CLIAmbiguousUnionType"}

RECURSIVE cli_nargs(_)
\* check_tuple_nargs(tup_type, *types): a record of all_nargs and total_nargs
check_tuple_nargs(types_arg) ==
    LET types == IF EllipsisType \in Range(types_arg)
                 THEN << <<"List", types_arg[1]>> >> ELSE types_arg
        Summed(all_nargs, total) ==
            IF total.raised # "none" THEN total
            ELSE Returned([all_nargs |-> all_nargs, total_nargs |-> total.value])
        Checked(all_nargs, n) ==
            IF n = 0
            THEN Returned([all_nargs |-> all_nargs,
                           total_nargs |-> to_cli_nargs_action(ZERO_OR_MORE)])
            ELSE IF \/ is_nested(all_nargs[n])
                    \/ \E i \in 1..(n - 1) : is_variable_length(all_nargs[i])
            THEN Raised("CLIIOUndefinedForNestedTupleType")
            ELSE Summed(all_nargs, SumNargs(all_nargs))
        Each(each) ==
            IF \E i \in DOMAIN each : each[i].raised # "none"
            THEN Raised(each[CHOOSE i \in DOMAIN each :
                                 /\ each[i].raised # "none"
                                 /\ \A j \in 1..(i - 1) : each[j].raised = "none"].raised)
            ELSE Checked([i \in DOMAIN each |-> each[i].value], Len(each))
    IN  Each([i \in DOMAIN types |-> cli_nargs(types[i])])

\* a collection_nargs that rejects every element type of more than one token
CollectionNargsRejectingNested(v) ==
    LET Of(value_nargs) ==
            IF value_nargs.raised # "none" THEN value_nargs
            ELSE IF value_nargs.value.action # NoAction \/ value_nargs.value.nargs # NoneNargs
            THEN Raised("CLIIOUndefinedForNestedCollectionType")
            ELSE Returned(CLINargsAction(ZERO_OR_MORE, NoAction))
    IN  Of(cli_nargs(v))

collection_nargs(v) ==
    LET Of(value_nargs) ==
            IF value_nargs.raised # "none" THEN value_nargs
            ELSE IF value_nargs.value.action # NoAction
            THEN Raised("CLIIOUndefinedForNestedCollectionType")
            ELSE IF value_nargs.value.nargs = NoneNargs
            THEN Returned(CLINargsAction(ZERO_OR_MORE, NoAction))
            ELSE Returned(CLINargsAction(value_nargs.value.nargs, APPEND))
    IN  Of(cli_nargs(v))

mapping_nargs(k, v) ==
    LET Of(key_nargs, val_nargs) ==
            IF key_nargs.raised # "none" THEN key_nargs
            ELSE IF val_nargs.raised # "none" THEN val_nargs
            ELSE IF key_nargs.value.nargs # NoneNargs \/ val_nargs.value.nargs # NoneNargs
            THEN Raised("CLIIOUndefinedForNestedCollectionType")
            ELSE Returned(CLINargsAction(ZERO_OR_MORE, NoAction))
    IN  Of(cli_nargs(k), cli_nargs(v))

tuple_nargs(t, types_arg) ==
    LET types == IF types_arg = <<>> /\ is_named_tuple_class(t)
                 THEN NamedTupleArgTypes(t) ELSE types_arg
    IN  IF ~(types_arg = <<>> /\ is_named_tuple_class(t))
           /\ types_arg # <<>> /\ types_arg[Len(types_arg)] = EllipsisType
        THEN cli_nargs(<<"List", types_arg[1]>>)
        ELSE IF ~is_named_tuple_class(t) /\ types_arg = <<>>
        THEN Returned(CLINargsAction(ZERO_OR_MORE, NoAction))
        ELSE LET Total(checked) == IF checked.raised # "none" THEN checked
                                    ELSE Returned(checked.value.total_nargs)
             IN  Total(check_tuple_nargs(types))

\* maybe_map(cli_nargs, types, (UnknownSignature, CLIIOUndefinedForType))
RECURSIVE MaybeMapNargs(_)
MaybeMapNargs(types) ==
    IF types = <<>> THEN Returned(<<>>)
    ELSE LET Then(res, rest) ==
                 IF rest.raised # "none" THEN rest
                 ELSE IF res.raised = "none"
                 THEN Returned(<<res.value>> \o rest.value)
                 ELSE rest
             First(res) ==
                 IF res.raised \notin {"none"} \cup CLIIOUndefinedForTypes THEN res
                 ELSE Then(res, MaybeMapNargs(Tail(types)))
         IN  First(cli_nargs(Head(types)))

union_nargs(types_arg) ==
    LET types  == SelectSeq(types_arg, LAMBDA t : t # NoneType)
        Of(all_nargs) ==
            IF Len(all_nargs) = 0 THEN Raised("CLIIOUndefinedForType")
            ELSE IF Cardinality({a.action : a \in Range(all_nargs)}) > 1
            THEN Raised("CLIAmbiguousUnionType")
            ELSE IF Cardinality({normalized_nargs(a) : a \in Range(all_nargs)}) > 1
            THEN Raised("CLIAmbiguousUnionType")
            ELSE Returned(all_nargs[1])
        Mapped(mapped) == IF mapped.raised # "none" THEN mapped ELSE Of(mapped.value)
    IN  Mapped(MaybeMapNargs(types))

\* cli_nargs(T): the registration the dispatcher resolves for T, applied
cli_nargs(T) ==
    IF T[1] = "Union" THEN union_nargs(Tail(T))
    ELSE IF T[1] = "Tuple" \/ is_named_tuple_class(T[1]) THEN tuple_nargs(T[1], Tail(T))
    ELSE IF T[1] \in MappingTypes
    THEN mapping_nargs(T[2], IF Len(T) >= 3 THEN T[3] ELSE <<"int">>)
    ELSE IF T[1] \in CollectionTypes THEN collection_nargs(T[2])
    ELSE IF T = UserOptional THEN Returned(CLINargsAction(OPTIONAL, NoAction))
    ELSE Returned(CLINargsAction(NoneNargs, NoAction))

\* one call of CLINargsAction.__add__
ApplyAdd ==
    /\ fn = "__add__"
    /\ fn_out = None
    /\ fn_out' = Some(CLINargsAdd(fn_in.self, fn_in.other))
    /\ UNCHANGED <<fn, fn_in>>
    /\ UNCHANGED <<cmd_vars, run_vars, obj_vars>>

\* one call of sum(all_nargs)
ApplySum ==
    /\ fn = "sum"
    /\ fn_out = None
    /\ fn_out' = Some(SumNargs(fn_in.all_nargs))
    /\ UNCHANGED <<fn, fn_in>>
    /\ UNCHANGED <<cmd_vars, run_vars, obj_vars>>

\* one call of cli_nargs
ApplyCliNargs ==
    /\ fn = "cli_nargs"
    /\ fn_out = None
    /\ fn_out' = Some(cli_nargs(fn_in.type))
    /\ UNCHANGED <<fn, fn_in>>
    /\ UNCHANGED <<cmd_vars, run_vars, obj_vars>>

(***************************************************************************)
(* Command line parsers (typed_io/cli/cli_parse.py).  A raw command line   *)
(* value is a str token or a list of str tokens.                           *)
(***************************************************************************)
PyNone == Val("NoneType", <<>>)

RaisedWith(e, details) == [raised |-> e, value |-> details]

\* the names the module typed_io/cli/cli_nargs_.py defines
CliNargsNames ==
    {"APPEND", "NoneType", "CLINargsAction", "to_cli_nargs_action",
     "GenericTypeLevelCLINargsSingleDispatch", "cli_nargs", "collection_nargs",
     "mapping_nargs", "tuple_nargs", "union_nargs", "check_tuple_nargs",
     "cli_option_nargs"}

\* the names the statements of typed_io/cli/cli_parse.py bind
CliParseNames ==
    ({"check_tuple_nargs", "check_union_nargs", "cli_nargs"} \cap CliNargsNames)
    \cup {"CLITypedInputError", "CLIIOUndefinedForType",
          "CLIIOUndefinedForNestedCollectionType", "UnknownSignature",
          "get_named_tuple_arg_types", "is_named_tuple_class", "is_top_type",
          "get_constructor_for", "identity", "KEY_VAL_JOIN_CHAR",
          "cli_split_keyval", "cli_parse_bool", "parse_range", "parse_bool",
          "cli_parser", "CLINoParse", "CollectionCLIParser", "MappingCLIParser",
          "UnionCLIParser", "TupleCLIParser"}

KEY_VAL_JOIN_CHAR == "="

\* s.split(KEY_VAL_JOIN_CHAR, maxsplit=1)
cli_split_keyval(s) ==
    IF KEY_VAL_JOIN_CHAR \notin Range(s) THEN <<s>>
    ELSE LET i == CHOOSE k \in DOMAIN s :
                      /\ s[k] = KEY_VAL_JOIN_CHAR
                      /\ \A j \in 1..(k - 1) : s[j] # KEY_VAL_JOIN_CHAR
         IN  <<SubSeq(s, 1, i - 1), SubSeq(s, i + 1, Len(s))>>

cli_parse_by_constructor == {"int", "str", "Fraction"}

cli_parse_methods == {"bool", "range"}

\* repr of a list of str tokens, as str(list) gives it
RECURSIVE ReprItems(_)
ReprItems(tokens) ==
    IF tokens = <<>> THEN <<>>
    ELSE <<"'">> \o Head(tokens).v \o <<"'">>
         \o (IF Len(tokens) = 1 THEN <<>> ELSE <<",", " ">>)
         \o ReprItems(Tail(tokens))

\* T(arg) for a type T that is its own parser
Construct(t, arg) ==
    IF t = "int"
    THEN (IF arg.t = "int" THEN Returned(arg)
          ELSE IF arg.t = "str"
          THEN (IF IsIntText(arg.v) THEN Returned(Val("int", ParseIntText(arg.v)))
                ELSE Raised("ValueError"))
          ELSE Raised("TypeError"))
    ELSE IF t = "str"
    THEN (IF arg.t = "str" THEN Returned(arg)
          ELSE IF arg.t = "int" THEN Returned(Val("str", FormatInt(arg.v)))
          ELSE IF arg.t = "list"
          THEN Returned(Val("str", <<"[">> \o ReprItems(arg.v) \o <<"]">>))
          ELSE Returned(Val("str", <<"N", "o", "n", "e">>)))
    ELSE (IF arg.t = "str" /\ ParseFraction(arg.v) # None
          THEN Returned(ParseFraction(arg.v)[1])
          ELSE Raised(IF arg.t = "str" THEN "ValueError" ELSE "TypeError"))

\* a function of cli_parse_methods applied to arg
CallMethod(t, arg) ==
    IF t = "bool"
    THEN (IF arg.t = "bool" THEN Returned(arg)
          ELSE IF arg.t = "str" /\ ParseBool(arg.v) # None
          THEN Returned(ParseBool(arg.v)[1])
          ELSE Raised(IF arg.t = "str" THEN "ValueError" ELSE "AttributeError"))
    ELSE (IF arg.t = "str" /\ ParseRange(arg.v) # None
          THEN Returned(ParseRange(arg.v)[1])
          ELSE Raised(IF arg.t = "str" THEN "ValueError" ELSE "AttributeError"))

\* the first raising entry of a sequence of results
FirstRaised(results) ==
    results[CHOOSE i \in DOMAIN results :
                /\ results[i].raised # "none"
                /\ \A j \in 1..(i - 1) : results[j].raised = "none"]

AnyRaised(results) == \E i \in DOMAIN results : results[i].raised # "none"

ValuesOfResults(results) == [i \in DOMAIN results |-> results[i].value]

\* CLINoParse.__init__(type_)
CLINoParseInit(T) ==
    IF T[1] \in {"Any", "object"} THEN Returned([kind |-> "CLINoParse", type |-> T])
    ELSE Raised("TypeError")

RECURSIVE cli_parser(_)
\* CollectionCLIParser.__init__(coll_type, val_type)
CollectionCLIParserInit(T) ==
    IF "cli_action" \notin CliParseNames THEN Raised("NameError")
    ELSE LET Of(func) ==
                 IF func.raised # "none" THEN func
                 ELSE Returned([kind |-> "CollectionCLIParser", type |-> T,
                                funcs |-> <<func.value>>])
         IN  Of(cli_parser(T[2]))

\* MappingCLIParser.__init__(coll_type, key_type, val_type)
MappingCLIParserInit(T) ==
    LET key_type  == T[2]
        val_type  == IF Len(T) >= 3 THEN T[3] ELSE <<"int">>
        Wrapped(funcs) ==
            IF AnyRaised(funcs) THEN FirstRaised(funcs)
            ELSE Returned([kind |-> "MappingCLIParser", type |-> T,
                           funcs |-> ValuesOfResults(funcs),
                           constructor_allows_iterable |->
                               T[1] \notin {"Counter", "ChainMap"}])
        Of(key_nargs, val_nargs) ==
            IF key_nargs.raised # "none" THEN key_nargs
            ELSE IF key_nargs.value # None
            THEN Raised(IF "CLINestedCollectionsNotAllowed" \in CliParseNames
                        THEN "CLINestedCollectionsNotAllowed" ELSE "NameError")
            ELSE IF val_nargs.raised # "none" THEN val_nargs
            ELSE IF val_nargs.value # None
            THEN Raised(IF "CLINestedCollectionsNotAllowed" \in CliParseNames
                        THEN "CLINestedCollectionsNotAllowed" ELSE "NameError")
            ELSE Wrapped(<<cli_parser(key_type), cli_parser(val_type)>>)
    IN  Of(cli_nargs(key_type), cli_nargs(val_type))

\* UnionCLIParser.__init__(u, *types)
UnionCLIParserInit(T) ==
    IF "check_union_nargs" \notin CliParseNames THEN Raised("NameError")
    ELSE LET types == SelectSeq(Tail(T), LAMBDA t : t # NoneType)
             Of(funcs) ==
                 IF \E i \in DOMAIN funcs :
                        funcs[i].raised \notin {"none"} \cup CLIIOUndefinedForTypes
                 THEN FirstRaised(SelectSeq(funcs, LAMBDA f :
                          f.raised \notin {"none"} \cup CLIIOUndefinedForTypes))
                 ELSE Returned([kind |-> "UnionCLIParser", type |-> T,
                                funcs |-> ValuesOfResults(
                                    SelectSeq(funcs, LAMBDA f : f.raised = "none")),
                                is_optional |-> NoneType \in Range(Tail(T))])
         IN  Of([i \in DOMAIN types |-> cli_parser(types[i])])

\* TupleCLIParser.__new__(cls, t, *types), then TupleWrapper.__init__
TupleCLIParserNew(T) ==
    LET types   == IF is_named_tuple_class(T[1]) THEN NamedTupleArgTypes(T[1])
                   ELSE Tail(T)
        Of(checked, funcs) ==
            IF checked.raised # "none" THEN checked
            ELSE IF AnyRaised(funcs) THEN FirstRaised(funcs)
            ELSE Returned([kind |-> "TupleCLIParser", type |-> T,
                           funcs |-> ValuesOfResults(funcs),
                           entry_nargs |-> checked.value.all_nargs,
                           require_same_len |->
                               \A i \in DOMAIN checked.value.all_nargs :
                                   \/ checked.value.all_nargs[i] = None
                                   \/ checked.value.all_nargs[i] = IntNargs(1)])
    IN  Of(check_tuple_nargs(types), [i \in DOMAIN types |-> cli_parser(types[i])])

\* cli_parser(T): the registration the dispatcher resolves for T, applied
cli_parser(T) ==
    IF T[1] = "Union" THEN UnionCLIParserInit(T)
    ELSE IF T[1] = "Tuple" \/ is_named_tuple_class(T[1]) THEN TupleCLIParserNew(T)
    ELSE IF T[1] \in MappingTypes THEN MappingCLIParserInit(T)
    ELSE IF T[1] \in CollectionTypes THEN CollectionCLIParserInit(T)
    ELSE IF T[1] \in cli_parse_by_constructor
    THEN Returned([kind |-> "constructor", type |-> T])
    ELSE IF T[1] \in cli_parse_methods THEN Returned([kind |-> "method", type |-> T])
    ELSE CLINoParseInit(T)

\* isinstance(n, int) for an entry of _entry_nargs
IsIntObject(n) == "kind" \in DOMAIN n /\ n.kind = "int"

\* args[lo:hi] for 0 <= lo
Slice(args, lo, hi) ==
    SubSeq(args, lo + 1, IF hi < Len(args) THEN hi ELSE Len(args))

\* TupleCLIParser.iter_chunks continued at index ix; -1 stands for None
RECURSIVE iter_chunks_from(_, _, _)
iter_chunks_from(entry_nargs, args, ix_arg) ==
    IF entry_nargs = <<>> THEN <<>>
    ELSE LET n == Head(entry_nargs)
         IN  IF n = None
             THEN (IF ix_arg = -1 THEN <<Raised("TypeError")>>
                   ELSE IF ix_arg >= Len(args) THEN <<Raised("IndexError")>>
                   ELSE <<Returned(args[ix_arg + 1])>>
                        \o iter_chunks_from(Tail(entry_nargs), args, ix_arg + 1))
             ELSE IF IsIntObject(n)
             THEN (IF ix_arg = -1 THEN <<Raised("TypeError")>>
                   ELSE <<Returned(Val("list", Slice(args, ix_arg, ix_arg + n.n)))>>
                        \o iter_chunks_from(Tail(entry_nargs), args, ix_arg + n.n))
             ELSE <<Returned(Val("list", IF ix_arg = -1 THEN args
                                         ELSE Slice(args, ix_arg, Len(args))))>>
                  \o iter_chunks_from(Tail(entry_nargs), args, -1)

iter_chunks(entry_nargs, args) == iter_chunks_from(entry_nargs, args, 0)

\* the entries of a lazily evaluated sequence of results that are computed:
\* those up to the first that raises
Computed(results) ==
    IF AnyRaised(results)
    THEN SubSeq(results, 1, CHOOSE i \in DOMAIN results :
                                /\ results[i].raised # "none"
                                /\ \A j \in 1..(i - 1) : results[j].raised = "none")
    ELSE results

RECURSIVE CallCliParser(_, _)
\* TupleCLIParser.call_iter(arg): the results of zip(funcs, iter_chunks(arg))
TupleCallIter(p, arg) ==
    LET Zip(chunks) ==
            Computed([i \in 1..(IF Len(chunks) < Len(p.funcs) THEN Len(chunks)
                                ELSE Len(p.funcs)) |->
                         IF chunks[i].raised # "none" THEN chunks[i]
                         ELSE CallCliParser(p.funcs[i], chunks[i].value)])
    IN  Zip(iter_chunks(p.entry_nargs, arg.v))

\* the chunks handed to the parsers of the fields, in field order
TupleChunksHanded(p, arg) ==
    LET Handed(chunks, results) == [i \in DOMAIN results |-> chunks[i]]
    IN  Handed(iter_chunks(p.entry_nargs, arg.v), TupleCallIter(p, arg))

\* MappingCLIParser.call_iter(keyvals)
MappingCallIter(p, arg) ==
    Computed([i \in DOMAIN arg.v |->
                 LET Pair(k, v) == IF k.raised # "none" THEN k
                                   ELSE IF v.raised # "none" THEN v
                                   ELSE Returned(<<k.value, v.value>>)
                     Parse(keyval) ==
                         IF Len(keyval) # 2 THEN Raised("ValueError")
                         ELSE Pair(CallCliParser(p.funcs[1], Val("str", keyval[1])),
                                   CallCliParser(p.funcs[2], Val("str", keyval[2])))
                 IN  Parse(cli_split_keyval(arg.v[i].v))])

\* dict(pairs): a later pair replaces an earlier one with the same key
DictOf(pairs) ==
    [k \in {pairs[i][1] : i \in DOMAIN pairs} |->
        pairs[CHOOSE i \in DOMAIN pairs :
                  /\ pairs[i][1] = k
                  /\ \A j \in DOMAIN pairs : pairs[j][1] = k => j <= i][2]]

\* the results of the branches of a union, tried in declared order until
\* one returns
UnionCallIter(funcs, arg) ==
    LET UntilReturned(results) ==
            IF \E i \in DOMAIN results : results[i].raised = "none"
            THEN SubSeq(results, 1, CHOOSE i \in DOMAIN results :
                                        /\ results[i].raised = "none"
                                        /\ \A j \in 1..(i - 1) : results[j].raised # "none")
            ELSE results
    IN  UntilReturned([i \in DOMAIN funcs |-> CallCliParser(funcs[i], arg)])

\* parser(arg) for a parser that cli_parser returned
CallCliParser(p, arg) ==
    IF p.kind = "constructor" THEN Construct(p.type[1], arg)
    ELSE IF p.kind = "method" THEN CallMethod(p.type[1], arg)
    ELSE IF p.kind = "CLINoParse" THEN Returned(arg)
    ELSE IF p.kind = "TupleCLIParser"
    THEN (IF arg.t # "list" THEN Raised("TypeError")
          ELSE LET AsTuple(results) ==
                       IF AnyRaised(results) THEN FirstRaised(results)
                       ELSE Returned(Val("tuple", ValuesOfResults(results)))
               IN  AsTuple(TupleCallIter(p, arg)))
    ELSE IF p.kind = "MappingCLIParser"
    THEN (IF arg.t # "list" THEN Raised("TypeError")
          ELSE LET AsMapping(results) ==
                       IF AnyRaised(results) THEN FirstRaised(results)
                       ELSE Returned(Val(IF p.constructor_allows_iterable THEN "dict"
                                         ELSE p.type[1],
                                         DictOf(ValuesOfResults(results))))
               IN  AsMapping(MappingCallIter(p, arg)))
    ELSE IF p.kind = "UnionCLIParser"
    THEN (IF arg.t = "NoneType" /\ p.is_optional THEN Returned(arg)
          ELSE LET LastOf(results) ==
                       IF results # <<>> /\ results[Len(results)].raised = "none"
                       THEN results[Len(results)]
                       ELSE Raised("CLIUnionInputError")
               IN  LastOf(UnionCallIter(p.funcs, arg)))
    ELSE (IF arg.t # "list" THEN Raised("TypeError")
          ELSE LET AsList(results) ==
                       IF AnyRaised(results) THEN FirstRaised(results)
                       ELSE Returned(Val("list", ValuesOfResults(results)))
               IN  AsList(Computed([i \in DOMAIN arg.v |->
                                       CallCliParser(p.funcs[1], arg.v[i])])))

(***************************************************************************)
(* Dispatchers (typed_io/utils.py): resolution of a registration for a     *)
(* type and the call of the resolved parser.                               *)
(***************************************************************************)
\* the class each dispatcher is an instance of
DispatcherClass(d) ==
    IF d = "cli_parser" THEN "CLIParserDispatch"
    ELSE IF d = "cli_nargs" THEN "GenericTypeLevelCLINargsSingleDispatch"
    ELSE "GenericIOTypeLevelSingleDispatch"

\* the classes a dispatcher class inherits from, itself included
Mro(cls) ==
    IF cls \in {"CLIParserDispatch", "GenericTypeLevelCLINargsSingleDispatch",
                "GenericIOParserTypeLevelSingleDispatch"}
    THEN {cls, "GenericIOTypeLevelSingleDispatch", "GenericTypeLevelSingleDispatch"}
    ELSE IF cls = "GenericIOTypeLevelSingleDispatch"
    THEN {cls, "GenericTypeLevelSingleDispatch"}
    ELSE {cls}

resolve_exc_class(d) ==
    IF d \in {"cli_parser", "cli_nargs"} THEN "CLIIOUndefinedForType"
    ELSE "ConfigIOUndefinedForType"

call_exc_class(d) ==
    IF d = "cli_parser" THEN Some("CLITypedInputError")
    ELSE IF d = "config_decoder" THEN Some("ConfigTypedInputError")
    ELSE IF d = "config_encoder" THEN Some("ConfigTypedOutputError")
    ELSE Some("TypedIOValueError")

\* parse_or_fail(func, type_, exc_class, value), res being func(value)
parse_or_fail(res, type_, exc_class, value) ==
    IF res.raised = "none" THEN res
    ELSE RaisedWith(exc_class, [type |-> type_, value |-> value, exc |-> res.raised])

\* the parser the dispatcher d returned for type_, applied to value, res
\* being the outcome of the registered parser on value
CallResolved(d, type_, value, res) ==
    IF /\ "GenericIOParserTypeLevelSingleDispatch" \in Mro(DispatcherClass(d))
       /\ call_exc_class(d) # None
    THEN parse_or_fail(res, type_, call_exc_class(d)[1], value)
    ELSE res

\* the registrations of each dispatcher, by the name of the registered type
Registrations(d) ==
    IF d = "cli_parser"
    THEN {"Callable", "Type", "IO", "Any", "Collection", "Mapping", "Union", "Tuple",
          "LazyType", "Enum", "Flag", "int", "str", "bool", "range"}
    ELSE IF d = "cli_nargs"
    THEN {"Any", "URL", "ByteString", "Collection", "Mapping", "Tuple", "Union"}
    ELSE IF d = "config_decoder"
    THEN {"Empty", "Any", "Generic", "Callable", "Type", "Collection", "Sequence",
          "Mapping", "ChainMap", "Counter", "Tuple", "NamedTupleABC", "Union",
          "LazyType", "int", "str", "bool", "range", "NoneType"}
    ELSE {"Callable", "Type", "Collection", "Mapping", "ChainMap", "Counter", "Tuple",
          "NamedTupleABC", "Union", "LazyType", "Enum", "Flag", "int", "str", "bool",
          "range", "NoneType"}

\* the registered types a type or registered type is a subtype of, itself
\* included; Union is an isolated base.  Custom is a class of the
\* application, Both a class that derives from its classes PatA and PatB
Supers(t) ==
    IF t = "Union" THEN {"Union"}
    ELSE IF t \in {"List", "Sequence"} THEN {t, "Sequence", "Collection", "Any"}
    ELSE IF t = "Tuple" THEN {"Tuple", "Sequence", "Collection", "Any"}
    ELSE IF t \in {"Dict", "Mapping"} THEN {t, "Mapping", "Collection", "Any"}
    ELSE IF t = "Both" THEN {"Both", "PatA", "PatB", "Any"}
    ELSE {t, "Any"}

\* GenericTypeLevelSingleDispatch.resolve: the most specific registration
\* that applies to t
BaseResolve(regs, t) ==
    LET matches == regs \cap Supers(t)
        best    == {p \in matches : \A q \in matches \ {p} : p \notin Supers(q)}
    IN  IF matches = {} THEN Raised("UnknownSignature")
        ELSE IF Cardinality(best) > 1 THEN Raised("AmbiguousResolutionError")
        ELSE Returned(CHOOSE p \in best : TRUE)

\* GenericIOTypeLevelSingleDispatch.resolve(sig)
resolve(d, regs, t) ==
    LET f == BaseResolve(regs, t)
    IN  IF f.raised = "UnknownSignature" THEN RaisedWith(resolve_exc_class(d), t)
        ELSE f

\* d(T) for a type without type arguments: the handler of the resolved
\* registration; the registration of cli_parser for Any constructs CLINoParse
DispatcherGet(d, user_regs, t) ==
    LET f == resolve(d, Registrations(d) \cup user_regs, t)
    IN  IF f.raised # "none" THEN f
        ELSE IF d = "cli_parser" /\ f.value = "Any"
        THEN (IF CLINoParseInit(<<t>>).raised = "none" THEN f
              ELSE RaisedWith(CLINoParseInit(<<t>>).raised, t))
        ELSE f

\* one call d(T)
ApplyResolve ==
    /\ fn = "resolve"
    /\ fn_out = None
    /\ fn_out' = Some(DispatcherGet(fn_in.dispatcher, fn_in.user_regs, fn_in.type))
    /\ UNCHANGED <<fn, fn_in>>
    /\ UNCHANGED <<cmd_vars, run_vars, obj_vars>>

\* parser = cli_parser(T)
ResolveCliParser ==
    /\ fn = "cli_parse"
    /\ fn_out = None
    /\ fn_out' = Some([stage |-> "resolved", parser |-> cli_parser(fn_in.type),
                       outcome |-> Returned(None), chunks |-> <<>>])
    /\ UNCHANGED <<fn, fn_in>>
    /\ UNCHANGED <<cmd_vars, run_vars, obj_vars>>

\* parser(raw) for the parser that cli_parser(T) returned
CallCliParserStep ==
    /\ fn = "cli_parse"
    /\ fn_out # None
    /\ fn_out[1].stage = "resolved"
    /\ fn_out[1].parser.raised = "none"
    /\ LET p == fn_out[1].parser.value
       IN  fn_out' = Some([stage |-> "called", parser |-> fn_out[1].parser,
                           outcome |-> CallResolved("cli_parser", fn_in.type, fn_in.raw,
                                                    CallCliParser(p, fn_in.raw)),
                           chunks |-> IF p.kind = "TupleCLIParser" /\ fn_in.raw.t = "list"
                                      THEN TupleChunksHanded(p, fn_in.raw)
                                      ELSE <<>>])
    /\ UNCHANGED <<fn, fn_in>>
    /\ UNCHANGED <<cmd_vars, run_vars, obj_vars>>

(***************************************************************************)
(* Union config decoder (typed_io/config/config_decode.py)                 *)
(***************************************************************************)
\* to_null
to_null(c) == IF c.t = "NoneType" THEN Returned(c) ELSE Raised("TypeError")

\* the decoder of a branch of a union applied to c
BranchDecode(T, c) ==
    LET Outcome(res) == IF res = None THEN Raised("TypeError") ELSE Returned(res[1])
    IN  IF T = NoneType THEN to_null(c) ELSE Outcome(ConfigDecode(T, c))

\* UnionConfigDecoder.call_iter under reduce = next: the branches are
\* decoded in declared order until one returns
UnionConfigCallIter(T, c) ==
    LET UntilReturned(results) ==
            IF \E i \in DOMAIN results : results[i].raised = "none"
            THEN SubSeq(results, 1, CHOOSE i \in DOMAIN results :
                                        /\ results[i].raised = "none"
                                        /\ \A j \in 1..(i - 1) : results[j].raised # "none")
            ELSE results
    IN  UntilReturned([i \in DOMAIN Tail(T) |-> BranchDecode(Tail(T)[i], c)])

\* config_decoder(T)(c) for a union T: the outcome and the branches invoked;
\* none_passes tells whether the wrapper returns None for an optional union
\* before it tries a branch
UnionConfigDecode(T, c, none_passes) ==
    IF none_passes /\ c.t = "NoneType" /\ NoneType \in Range(Tail(T))
    THEN [outcome |-> Returned(c), invoked |-> <<>>]
    ELSE LET Reduce(results) ==
                 [outcome |-> IF results # <<>> /\ results[Len(results)].raised = "none"
                              THEN results[Len(results)] ELSE Raised("AllFailed"),
                  invoked |-> [i \in DOMAIN results |-> Tail(T)[i]]]
         IN  Reduce(UnionConfigCallIter(T, c))

\* one call of config_decoder(T)(c) for a union T
ApplyUnionConfigDecode ==
    /\ fn = "config_decode"
    /\ fn_out = None
    /\ LET Called(res) == [outcome |-> CallResolved("config_decoder", fn_in.type,
                                                    fn_in.raw, res.outcome),
                           invoked |-> res.invoked]
       IN  fn_out' = Some(Called(UnionConfigDecode(fn_in.type, fn_in.raw,
                                                   fn_in.none_passes)))
    /\ UNCHANGED <<fn, fn_in>>
    /\ UNCHANGED <<cmd_vars, run_vars, obj_vars>>

(***************************************************************************)
(* Declarative construction (typed_io/config/inflation.py)                 *)
(***************************************************************************)
CLASSPATH_KEY == "__classpath__"

ARGS_KEY == "__args__"

KWARGS_KEY == "__kwargs__"

CONSTRUCTOR_KEY == "__constructor__"

INFLATABLE_CONFIG_KEYS == {CLASSPATH_KEY, ARGS_KEY, KWARGS_KEY, CONSTRUCTOR_KEY}

POSITIONAL_ONLY == "POSITIONAL_ONLY"

NON_VARIADIC_KINDS == {POSITIONAL_OR_KEYWORD, KEYWORD_ONLY, POSITIONAL_ONLY}

\* a mapping is inflatable whenever all its keys are reserved
IsInflatableByKeysOnly(obj) ==
    obj.t = "dict" /\ DOMAIN obj.v \subseteq INFLATABLE_CONFIG_KEYS

_is_inflatable_config(obj) ==
    /\ obj.t = "dict"
    /\ (CLASSPATH_KEY \in DOMAIN obj.v \/ CONSTRUCTOR_KEY \in DOMAIN obj.v)
    /\ DOMAIN obj.v \subseteq INFLATABLE_CONFIG_KEYS

\* the signature of tests/test_config_inflation.py Class.__init__, taken at
\* Class[int]; the annotation float of **kwargs is taken as int, the number
\* type of this model
ClassSignature ==
    << [name |-> "x", kind |-> POSITIONAL_OR_KEYWORD, annotation |-> <<"str">>],
       [name |-> "y", kind |-> POSITIONAL_OR_KEYWORD, annotation |-> <<"int">>],
       [name |-> "args", kind |-> VAR_POSITIONAL, annotation |-> <<"str">>],
       [name |-> "kwargs", kind |-> VAR_KEYWORD, annotation |-> <<"int">>] >>

\* the importable paths: a class and a function that constructs it
ImportableTypes == {"Class"}

ImportableCallables == {"Class", "make_class"}

SigParam(sig, name) == sig[CHOOSE i \in DOMAIN sig : sig[i].name = name]

\* the names of the leading parameters that bind positional arguments
PositionalNames(sig) ==
    LET pos == SelectSeq(sig, LAMBDA p : p.kind = POSITIONAL_OR_KEYWORD)
    IN  [i \in DOMAIN pos |-> pos[i].name]

\* inspect.Signature.bind( *args, **kwargs): the arguments in the order of
\* the parameters, as pairs of a name and a value
Bind(sig, args, kwargs) ==
    LET pos      == PositionalNames(sig)
        given    == IF Len(args) < Len(pos) THEN Len(args) ELSE Len(pos)
        extras   == SubSeq(args, Len(pos) + 1, Len(args))
        extra_kw == [k \in DOMAIN kwargs \ Range(pos) |-> kwargs[k]]
    IN  IF \E i \in 1..given : pos[i] \in DOMAIN kwargs THEN Raised("TypeError")
        ELSE IF \E i \in (given + 1)..Len(pos) : pos[i] \notin DOMAIN kwargs
        THEN Raised("TypeError")
        ELSE Returned([i \in 1..Len(pos) |->
                          <<pos[i], IF i <= given THEN args[i] ELSE kwargs[pos[i]]>>]
                      \o (IF extras = <<>> THEN <<>>
                          ELSE << <<"args", Val("tuple", extras)>> >>)
                      \o (IF DOMAIN extra_kw = {} THEN <<>>
                          ELSE << <<"kwargs", Val("dict", extra_kw)>> >>))

\* the decoder passes every argument through as it is
DecodeArgumentRaw(param, arg) == Returned(arg)

\* the body of the try block of TypedConfigCallable.__call__ for one bound
\* argument: decoders[name] applied to it, or to each of its entries
DecodeArgument(param, arg) ==
    IF param.kind \in NON_VARIADIC_KINDS
    THEN (IF ConfigDecode(param.annotation, arg) = None
          THEN RaisedWith("Exception", param.annotation)
          ELSE Returned(ConfigDecode(param.annotation, arg)[1]))
    ELSE IF \E k \in DOMAIN arg.v : ConfigDecode(param.annotation, arg.v[k]) = None
    THEN RaisedWith("Exception", param.annotation)
    ELSE Returned(Val(arg.t, [k \in DOMAIN arg.v |->
                                 ConfigDecode(param.annotation, arg.v[k])[1]]))

\* the prefix of the argument name is left empty
ArgNameBare(param) == param.name

\* prefix + name
ArgName(param) ==
    IF param.kind = VAR_KEYWORD THEN "**" \o param.name
    ELSE IF param.kind = VAR_POSITIONAL THEN "*" \o param.name
    ELSE param.name

\* TypedConfigCallable.__call__( *args, **kwargs) for func with signature sig
TypedConfigCall(func, sig, args, kwargs) ==
    LET bound == Bind(sig, args, kwargs)
    IN  IF bound.raised # "none" THEN [bound EXCEPT !.value = [called |-> FALSE]]
        ELSE LET decoded == [i \in DOMAIN bound.value |->
                                DecodeArgument(SigParam(sig, bound.value[i][1]),
                                               bound.value[i][2])]
             IN  IF AnyRaised(decoded)
                 THEN LET i == CHOOSE k \in DOMAIN decoded :
                                   /\ decoded[k].raised # "none"
                                   /\ \A j \in 1..(k - 1) : decoded[j].raised = "none"
                      IN  RaisedWith("ConfigInflationError",
                              [type |-> func,
                               value |-> [args |-> args, kwargs |-> kwargs],
                               exc |-> Some(decoded[i].value),
                               argname |-> ArgName(SigParam(sig, bound.value[i][1])),
                               signature |-> sig,
                               called |-> FALSE])
                 ELSE Returned([func |-> func, called |-> TRUE,
                                received |-> [i \in DOMAIN bound.value |->
                                                 <<bound.value[i][1], decoded[i].value>>]])

\* obj[key] if key is in obj else None
GetKey(obj, key) == IF key \in DOMAIN obj THEN Some(obj[key]) ELSE None

\* instance_from( **conf) without a target type: the outcome and the paths
\* imported on the way
instance_from(conf) ==
    LET classpath   == GetKey(conf, CLASSPATH_KEY)
        constructor == GetKey(conf, CONSTRUCTOR_KEY)
        args        == IF ARGS_KEY \in DOMAIN conf THEN conf[ARGS_KEY].v ELSE <<>>
        kwargs      == IF KWARGS_KEY \in DOMAIN conf THEN conf[KWARGS_KEY].v ELSE EmptyMap
        imports     == (IF classpath = None THEN <<>> ELSE classpath)
                       \o (IF constructor = None THEN <<>> ELSE constructor)
    IN  IF classpath # None /\ classpath[1] \notin ImportableTypes
        THEN [outcome |-> RaisedWith("TypeError", [called |-> FALSE]),
              imports |-> classpath]
        ELSE IF constructor # None /\ constructor[1] \notin ImportableCallables
        THEN [outcome |-> RaisedWith("ImportError", [called |-> FALSE]),
              imports |-> imports]
        ELSE IF constructor = None /\ classpath = None
        THEN [outcome |-> RaisedWith("ValueError", [called |-> FALSE]),
              imports |-> imports]
        ELSE [outcome |-> TypedConfigCall(IF constructor # None THEN constructor[1]
                                          ELSE classpath[1],
                                          ClassSignature, args, kwargs),
              imports |-> imports]

\* inflate_config(conf)
inflate_config(conf) ==
    IF _is_inflatable_config(conf)
    THEN [inflated |-> TRUE] @@ instance_from(conf.v)
    ELSE [inflated |-> FALSE, outcome |-> Returned(conf), imports |-> <<>>]

\* one call of inflate_config
ApplyInflateConfig ==
    /\ fn = "inflate_config"
    /\ fn_out = None
    /\ fn_out' = Some(inflate_config(fn_in.conf))
    /\ UNCHANGED <<fn, fn_in>>
    /\ UNCHANGED <<cmd_vars, run_vars, obj_vars>>

(***************************************************************************)
(* The command line arguments of a command (typed_io/main.py argparse_spec *)
(* and add_argparse_arg, cli/main.py _add_arguments_from).  A parameter is *)
(* a record of its name, kind and annotation; the parser answers every     *)
(* add_argument with the action it added.                                  *)
(***************************************************************************)
\* cli/main.py: VARIABLE_LENGTH_NARGS = (ONE_OR_MORE, OPTIONAL, ZERO_OR_MORE)
VARIABLE_LENGTH_NARGS == {ONE_OR_MORE, OPTIONAL, ZERO_OR_MORE}

\* TypedIO.from_parameter: the type of the TypedIO of a parameter
from_parameter(param) ==
    IF param.kind = VAR_POSITIONAL THEN <<"Tuple", param.type, EllipsisType>>
    ELSE IF param.kind = VAR_KEYWORD THEN <<"Dict", <<"str">>, param.type>>
    ELSE param.type

\* variant: the nargs field of the arity is compared
IsVariadicByNargsField(type_) == cli_nargs(type_).value.nargs \in {ZERO_OR_MORE, ONE_OR_MORE}

\* TypedIO.is_variadic: cli_nargs(self.type_) in (ZERO_OR_MORE, ONE_OR_MORE);
\* the value compared with the two strings is the CLINargsAction
is_variadic(type_) == cli_nargs(type_).value \in {ZERO_OR_MORE, ONE_OR_MORE}

\* argparse_spec: the flag positional of a parameter that is no flag
positional_of(param, allow_positionals) ==
    IF param.kind = VAR_KEYWORD THEN FALSE
    ELSE IF param.kind = VAR_POSITIONAL THEN allow_positionals
    ELSE IF param.kind = KEYWORD_ONLY THEN FALSE
    ELSE allow_positionals /\ ~is_variadic(from_parameter(param))

\* argparse_spec: nargs = self.cli_nargs; if nargs is not None: kw['nargs'] = nargs.
\* The keyword is the CLINargsAction, which is never None.
nargs_keyword(param) == cli_nargs(from_parameter(param)).value

\* ArgumentParser.add_argument of the standard library takes None, an int or
\* one of its strings for nargs; what it does with another object is the
\* input lenient: it adds the action, or it raises ValueError
add_argument_raises(nargs, lenient) ==
    /\ nargs # NoneNargs
    /\ nargs \notin {IntNargs(n) : n \in 0..8}
    /\ nargs \notin VARIABLE_LENGTH_NARGS
    /\ ~lenient

\* add_argparse_arg: the action of a parameter with action.positional set
ArgparseAction(param, allow_positionals) ==
    [name |-> param.name, annotation |-> param.type,
     positional |-> positional_of(param, allow_positionals),
     nargs |-> nargs_keyword(param)]

\* _add_arguments_from: the actions added to the parser and the exception
\* raised, by add_argument or by the check of the positional arguments
_add_arguments_from(params, require_keyword_args, lenient) ==
    LET allow_positionals == ~require_keyword_args
        actions == [i \in DOMAIN params |-> ArgparseAction(params[i], allow_positionals)]
        refused == {i \in DOMAIN params : add_argument_raises(actions[i].nargs, lenient)}
        positional_args == SelectSeq(actions, LAMBDA a : a.positional)
        bad_positional_args ==
            {i \in 1..(Len(positional_args) - 1) :
                positional_args[i].nargs \in VARIABLE_LENGTH_NARGS}
    IN  IF refused # {}
        THEN [raised |-> "ValueError", by |-> "add_argument",
              actions |-> SubSeq(actions, 1,
                                (CHOOSE i \in refused : \A j \in refused : i <= j) - 1)]
        ELSE IF bad_positional_args # {}
        THEN [raised |-> "ValueError", by |-> "_add_arguments_from", actions |-> actions]
        ELSE [raised |-> "none", by |-> "", actions |-> actions]

\* one call of _add_arguments_from
ApplyAddArgumentsFrom ==
    /\ fn = "_add_arguments_from"
    /\ fn_out = None
    /\ fn_out' = Some(_add_arguments_from(fn_in.params, fn_in.require_keyword_args,
                                          fn_in.lenient))
    /\ UNCHANGED <<fn, fn_in>>
    /\ UNCHANGED <<cmd_vars, run_vars, obj_vars>>

(***************************************************************************)
(* Bounded inputs                                                          *)
(***************************************************************************)
\* the command f(a) with output handler h(value, *, o)
SigA(da, do) ==
    <<Prm("a", POSITIONAL_OR_KEYWORD, Some("int"), da, FALSE),
      Prm("o", KEYWORD_ONLY, Some("str"), do, TRUE)>>

\* the command g(p, q=0, *args, **kw) with output handler h(value)
SigB(dp) ==
    <<Prm("p", POSITIONAL_OR_KEYWORD, Some("int"), dp, FALSE),
      Prm("q", POSITIONAL_OR_KEYWORD, Some("int"), Some("0"), FALSE),
      Prm("args", VAR_POSITIONAL, Some("int"), None, FALSE),
      Prm("kw", VAR_KEYWORD, Some("int"), None, FALSE)>>

SignaturesB == {SigB(dp) : dp \in {None, Some(BadAtom)}}

\* (parse_env, os.environ) pairs for g: nothing opted in; q opted in through
\* ENV_Q with ENV_Q set
EnvSettingsB ==
    {<<EmptyMap, [v \in {"ENV_Q"} |-> "7"]>>,
     <<[n \in {"q"} |-> "ENV_Q"], [v \in {"ENV_Q"} |-> "7"]>>}

SignaturesA == {SigA(da, do) : da \in {None, Some(BadAtom)}, do \in {None, Some("7")}}

LookupOrders ==
    {<<CONFIG>>, <<CLI, CONFIG>>, <<CONFIG, CLI>>, <<CLI, ENV, CONFIG>>,
     <<ENV, CONFIG, CLI>>}

\* (parse_env, os.environ) pairs: nothing opted in; a opted in through
\* ENV_A with ENV_A set, with ENV_A and a set, with only a set
EnvSettings ==
    LET optIn == [n \in {"a"} |-> "ENV_A"]
    IN  {<<EmptyMap, [v \in {"ENV_A"} |-> "7"]>>,
         <<optIn, [v \in {"ENV_A"} |-> "7"]>>,
         <<optIn, [v \in {"ENV_A", "a"} |-> IF v = "a" THEN "0" ELSE "7"]>>,
         <<optIn, [v \in {"a"} |-> "0"]>>}

\* what the argparse namespace may hold for a parameter (None: the missing
\* marker) and what the command's config section may hold (None: no entry)
CliChoices(n) ==
    IF n = "a" THEN {None, Some("0"), Some("7")}
    ELSE IF n = "p" THEN {None, Some("7")}
    ELSE IF n = "args" THEN {None, Some(<<"7", "0">>)}
    ELSE IF n = "kw" THEN {None, Some([k \in {"z"} |-> "7"]),
                           Some([k \in {"p"} |-> "0"]),
                           Some([k \in {"z"} |-> BadAtom])}
    ELSE {None}

ConfChoices(n) ==
    IF n = "a" THEN {None, Some("7"), Some(BadAtom)}
    ELSE {None}

\* every way of giving each of the names one of its choices
RECURSIVE CliAssignments(_)
CliAssignments(names) ==
    IF names = {} THEN {EmptyMap}
    ELSE LET n == CHOOSE x \in names : TRUE
         IN  {Update(m, [k \in {n} |-> v]) :
                 m \in CliAssignments(names \ {n}), v \in CliChoices(n)}

RECURSIVE ConfAssignments(_)
ConfAssignments(names) ==
    IF names = {} THEN {EmptyMap}
    ELSE LET n == CHOOSE x \in names : TRUE
         IN  {Update(m, [k \in {n} |-> v]) :
                 m \in ConfAssignments(names \ {n}), v \in ConfChoices(n)}

\* argparse namespaces: every parameter is an attribute
Namespaces(sig) == CliAssignments(ParamNames(sig))

\* the mapping holding the entries of f that are not None
Entries(f) == [n \in {k \in DOMAIN f : f[k] # None} |-> f[n][1]]

\* config documents: no config at all, or a document whose section of the
\* command holds at least one entry
Configs(sig) ==
    {None} \cup
    {Some([s \in {"cmd"} |-> Entries(f)]) :
        f \in {g \in ConfAssignments(ParamNames(sig)) :
                  \E n \in ParamNames(sig) : g[n] # None}}

InitRun ==
    /\ pc = "idle"
    /\ handle_output = FALSE
    /\ lookup = [s \in ArgSource \cup {DEFAULTS} |-> None]
    /\ eff_order = <<>>
    /\ sources = <<>>
    /\ values = <<>>
    /\ ix = 0
    /\ final_args = <<>>
    /\ final_kwargs = EmptyMap
    /\ final_output_args = <<>>
    /\ final_output_kwargs = EmptyMap
    /\ parse_log = <<>>
    /\ calls = <<>>
    /\ error = NoError
    /\ result = None

InitFn ==
    /\ fn = "none"
    /\ fn_in = None
    /\ fn_out = None

\* no TypedIO object exists, no thread runs, no command is registered
InitNoObjects ==
    /\ lru_cache = EmptyMap
    /\ instance_dict = EmptyMap
    /\ threads = EmptyMap
    /\ subcommands = EmptyMap
    /\ registrations = <<>>
    /\ interface = None
    /\ runs = <<>>

Init ==
    /\ signature \in SignaturesA
    /\ output_handler = TRUE
    /\ lookup_order \in {ValidateLookupOrder(o) : o \in LookupOrders}
    /\ parse_order \in ParseOrderValues(None, ParamNames(signature))
    /\ \E es \in EnvSettings : parse_env = es[1] /\ environ = es[2]
    /\ parse_config_as_cli \in {{}, {"a"}}
    /\ typecheck = {"a"}
    /\ ignore_in_config = {"o"}
    /\ InitRun
    /\ InitFn
    /\ InitNoObjects

\* explicit parse orders handed to compute_parse_order: None, or up to
\* MaxOrderLen distinct entries among names, an unknown name and Ellipsis
MaxOrderLen == 3

OrderNames == {"a", "b", "c"}

ParseOrderInputs ==
    {[parse_order |-> po, param_names |-> OrderNames] :
        po \in {None} \cup
               {Some(o) : o \in {x \in Arrangements(OrderNames \cup {"x", Ellipsis}) :
                                    Len(x) <= MaxOrderLen}}}

\* values for the round trip: ints up to MaxInt in absolute value and one
\* two-digit int, collections of up to MaxLen entries
MaxInt == 2

MaxLen == 2

Ints == (-MaxInt)..MaxInt

BoolValues == {Val("bool", b) : b \in BOOLEAN}

IntValues == {Val("int", n) : n \in Ints \cup {-10, 12}}

StrValues == {Val("str", v) : v \in {<<>>, <<"a">>, <<"1", ":", "2">>, <<"a", "|", "b">>}}

RangeValues ==
    {Val("range", <<a, b, c>>) : a \in Ints, b \in Ints \cup {12}, c \in Ints \ {0}}

FractionValues ==
    {MakeFraction(n, d)[1] : n \in Ints \cup {12}, d \in 1..(MaxInt + 1)}

EnumValues == {Val("SomeEnum", Members("SomeEnum")[k].value) : k \in 1..3}

\* every combination of the members of SomeFlag, the empty one included
FlagValues ==
    {Val("SomeFlag", SumOf({Members("SomeFlag")[k].value : k \in S})) :
        S \in SUBSET (1..3)}

ValuesOf(t) ==
    IF t = "bool" THEN BoolValues
    ELSE IF t = "int" THEN IntValues
    ELSE IF t = "str" THEN StrValues
    ELSE IF t = "range" THEN RangeValues
    ELSE IF t = "Fraction" THEN FractionValues
    ELSE IF t = "SomeEnum" THEN EnumValues
    ELSE FlagValues

\* a few values of each atomic type, for the entries of collections
FewValuesOf(t) ==
    IF t = "range" THEN {Val("range", <<0, 2, 1>>), Val("range", <<2, -1, -1>>)}
    ELSE IF t = "Fraction" THEN {Val("Fraction", <<2, 1>>), Val("Fraction", <<-1, 2>>)}
    ELSE IF t = "int" THEN {Val("int", 0), Val("int", -10)}
    ELSE IF t = "str" THEN {Val("str", <<>>), Val("str", <<"a", "|", "b">>)}
    ELSE IF t = "SomeFlag" THEN {Val("SomeFlag", 1), Val("SomeFlag", 6)}
    ELSE ValuesOf(t)

FractionEncoders(t) ==
    IF t = "Fraction" THEN {"to_config_fraction", "str"} ELSE {"str"}

RoundTripInput(T, x, enc) == [type |-> T, value |-> x, fraction_encoder |-> enc]

\* atomic types, List[t], Tuple[t, bool] and Dict[str, t] for atomic t
InitRoundTrip ==
    \E t \in AtomicTypes : \E enc \in FractionEncoders(t) :
        \/ \E x \in ValuesOf(t) : fn_in = RoundTripInput(<<t>>, x, enc)
        \/ \E n \in 0..MaxLen : \E xs \in [1..n -> FewValuesOf(t)] :
               fn_in = RoundTripInput(<<"List", <<t>>>>, Val("list", xs), enc)
        \/ \E x \in FewValuesOf(t), b \in BoolValues :
               fn_in = RoundTripInput(<<"Tuple", <<t>>, <<"bool">>>>,
                                      Val("tuple", <<x, b>>), enc)
        \/ \E K \in SUBSET {<<"j">>, <<"k">>} : \E m \in [K -> FewValuesOf(t)] :
               fn_in = RoundTripInput(<<"Dict", <<"str">>, <<t>>>>, Val("dict", m), enc)

\* no command is under execution while a pure function is applied
InitNoCommand ==
    /\ signature = <<>>
    /\ output_handler = FALSE
    /\ lookup_order = <<>>
    /\ parse_order = <<>>
    /\ parse_env = EmptyMap
    /\ parse_config_as_cli = {}
    /\ typecheck = {}
    /\ ignore_in_config = {}
    /\ environ = EmptyMap
    /\ InitRun

InitPure ==
    /\ InitNoCommand
    /\ InitNoObjects
    /\ fn_out = None
    /\ \/ fn = "compute_parse_order" /\ fn_in \in ParseOrderInputs
       \/ fn = "round_trip" /\ InitRoundTrip

\* commands with variadic parameters
InitB ==
    /\ signature \in SignaturesB
    /\ output_handler = TRUE
    /\ lookup_order = ValidateLookupOrder(<<CLI, ENV, CONFIG>>)
    /\ parse_order \in ParseOrderValues(None, ParamNames(signature))
    /\ \E es \in EnvSettingsB : parse_env = es[1] /\ environ = es[2]
    /\ parse_config_as_cli \in {{}, {"q"}}
    /\ typecheck = {"p"}
    /\ ignore_in_config = {}
    /\ InitRun
    /\ InitFn
    /\ InitNoObjects

\* SubCommandFunc.execute is called
Execute ==
    /\ pc = "idle"
    /\ \E h_o \in BOOLEAN :
           \/ \E namespace \in Namespaces(signature), config \in Configs(signature) :
                  Collect(namespace, config, h_o)
           \/ CollectRaises(h_o)

Next ==
    \/ Execute
    \/ Lookup
    \/ LookupRaises
    \/ Decode
    \/ DecodeParserRaises
    \/ DecodeTypecheckRaises
    \/ Assemble
    \/ CallFunc
    \/ CallFuncRaises
    \/ CallHandler
    \/ CallHandlerRaises
    \/ SkipHandler

Spec == Init /\ [][Next]_vars

SpecB == InitB /\ [][Next]_vars

NextPure ==
    \/ ApplyComputeParseOrder
    \/ ApplyRoundTrip

SpecPure == InitPure /\ [][NextPure]_vars

(***************************************************************************)
(* Bounded inputs of the typed I/O functions                               *)
(***************************************************************************)
\* fixed tuples of up to MaxFields fields
MaxFields == 3

\* token lists of up to MaxTokens tokens
MaxTokens == 3

Optional(T) == <<"Union", T, NoneType>>

\* sequences over S of length lo to hi
SeqsOf(S, lo, hi) == UNION {[1..n -> S] : n \in lo..hi}

NargsFieldTypes ==
    {<<"int">>, <<"str">>, <<"List", <<"int">>>>, <<"List", <<"List", <<"int">>>>>>,
     <<"Tuple", <<"int">>, <<"int">>>>, <<"Tuple", <<"int">>, <<"List", <<"int">>>>>>,
     Optional(<<"int">>), UserOptional, <<"Dict", <<"str">>, <<"int">>>>}

TupleOf(fields) == <<"Tuple">> \o fields

NargsTypes ==
    {TupleOf(fs) : fs \in SeqsOf(NargsFieldTypes, 1, MaxFields)}
    \cup {<<"FooTup">>, <<"Tuple", <<"int">>, EllipsisType>>}

\* the element types of the collection types whose arity is taken
ElementTypes ==
    {<<"int">>, <<"str">>, Optional(<<"int">>), UserOptional, <<"List", <<"int">>>>,
     <<"Set", <<"str">>>>, <<"List", <<"List", <<"int">>>>>>,
     <<"Tuple", <<"int">>, <<"int">>>>, <<"FooTup">>,
     <<"Tuple", <<"int">>, <<"List", <<"int">>>>>>, <<"Dict", <<"str">>, <<"int">>>>,
     <<"Union", <<"int">>, <<"List", <<"int">>>>>>}

CollectionNargsTypes == {<<c, t>> : c \in CollectionTypes, t \in ElementTypes}

\* the branches of the union types whose arity is taken
UnionBranchTypes ==
    {<<"int">>, <<"str">>, NoneType, <<"Tuple", <<"int">>>>,
     <<"Tuple", <<"int">>, <<"int">>>>, <<"List", <<"int">>>>, UserOptional,
     <<"Tuple", <<"int">>, <<"List", <<"int">>>>>>, <<"List", <<"List", <<"int">>>>>>}

UnionNargsTypes == {<<"Union", a, b>> : a \in UnionBranchTypes, b \in UnionBranchTypes}

ParseFieldTypes ==
    {<<"int">>, <<"str">>, <<"Tuple", <<"int">>, <<"int">>>>, <<"List", <<"int">>>>}

Tokens == {Val("str", <<"1">>), Val("str", <<"2">>), Val("str", <<"3">>), Val("str", <<"a">>)}

TokenLists == {Val("list", ts) : ts \in SeqsOf(Tokens, 0, MaxTokens)}

KeyValTokens ==
    {Val("str", <<"a", "=", "1">>), Val("str", <<"b", "=", "2">>),
     Val("str", <<"a", "=", "b", "=", "1">>), Val("str", <<"a">>)}

KeyValLists == {Val("list", ts) : ts \in SeqsOf(KeyValTokens, 0, 2)}

MappingInputTypes ==
    {<<"Dict", <<"str">>, <<"int">>>>, <<"Mapping", <<"str">>, <<"str">>>>,
     <<"Counter", <<"str">>>>, <<"ChainMap", <<"str">>, <<"int">>>>}

UnionInputTypes ==
    {<<"Union", <<"int">>, <<"str">>>>, <<"Union", <<"str">>, <<"int">>>>,
     Optional(<<"int">>), Optional(<<"str">>), <<"Union", NoneType, <<"int">>>>}

TupleInputTypes ==
    {TupleOf(fs) : fs \in SeqsOf(ParseFieldTypes, 1, MaxFields)} \cup {<<"FooTup">>}

AtomInputTypes == {<<"int">>, <<"str">>, <<"bool">>, <<"Custom">>}

CliParseInput(T, r) == [type |-> T, raw |-> r]

InitCliParse ==
    \/ \E t \in TupleInputTypes, r \in TokenLists : fn_in = CliParseInput(t, r)
    \/ \E t \in MappingInputTypes, r \in KeyValLists : fn_in = CliParseInput(t, r)
    \/ \E t \in UnionInputTypes \cup AtomInputTypes, r \in Tokens \cup {PyNone} :
           fn_in = CliParseInput(t, r)

ConfigRaws ==
    <<PyNone, Val("int", 2), Val("str", <<"1">>), Val("str", <<"a">>),
      Val("bool", TRUE), Val("list", <<>>)>>

\* none_passes: whether the union wrapper of bourbaki.introspection returns
\* None for an optional union before it tries a branch
InitConfigDecode ==
    \E t \in UnionInputTypes, i \in DOMAIN ConfigRaws, b \in BOOLEAN :
        fn_in = [type |-> t, raw |-> ConfigRaws[i], none_passes |-> b]

Dispatchers == {"cli_parser", "cli_nargs", "config_decoder", "config_encoder"}

ResolveTypes == {"int", "List", "Dict", "Tuple", "Union", "Custom", "Both"}

UserRegistrations == {{}, {"PatA"}, {"PatB"}, {"PatA", "PatB"}, {"Custom"}}

ResolveInputs ==
    {[dispatcher |-> d, user_regs |-> u, type |-> t] :
        d \in Dispatchers, u \in UserRegistrations, t \in ResolveTypes}

\* signatures of up to MaxParams parameters
MaxParams == 3

ArgumentNames == <<"x", "y", "z", "w">>

ParamKinds == <<POSITIONAL_OR_KEYWORD, VAR_POSITIONAL, KEYWORD_ONLY, VAR_KEYWORD>>

\* the kinds and annotations of the parameters of the registered functions
ParamSorts ==
    ({1, 3} \X {<<"int">>, <<"List", <<"int">>>>, <<"Tuple", <<"int">>, <<"int">>>>})
    \cup ({2, 4} \X {<<"int">>})

\* the kinds are in the order Python accepts, each variadic kind at most once
ParamLists ==
    {[i \in DOMAIN ks |->
         [name |-> ArgumentNames[i], kind |-> ParamKinds[ks[i][1]], type |-> ks[i][2]]] :
        ks \in {l \in SeqsOf(ParamSorts, 1, MaxParams) :
                   \A i, j \in DOMAIN l :
                       i < j => /\ l[i][1] <= l[j][1]
                                /\ (l[i][1] = l[j][1] => l[i][1] \in {1, 3})}}

AddArgumentsInputs ==
    [params : ParamLists, require_keyword_args : BOOLEAN, lenient : BOOLEAN]

\* the nargs values of the arities that are added
NargsValues == {NoneNargs, IntNargs(1), IntNargs(2), ZERO_OR_MORE, ONE_OR_MORE, OPTIONAL}

\* arities with and without the action append
Arities == {CLINargsAction(n, act) : n \in NargsValues, act \in {NoAction, APPEND}}

\* the arities check_tuple_nargs sums have no action
SumInputs ==
    {[all_nargs |-> l] :
        l \in SeqsOf({CLINargsAction(n, NoAction) : n \in NargsValues}, 1, MaxFields)}

InitIO ==
    /\ InitNoCommand
    /\ InitNoObjects
    /\ fn_out = None
    /\ \/ fn = "cli_nargs" /\ fn_in \in {[type |-> t] : t \in NargsTypes \cup CollectionNargsTypes \cup UnionNargsTypes}
       \/ fn = "cli_parse" /\ InitCliParse
       \/ fn = "config_decode" /\ InitConfigDecode
       \/ fn = "resolve" /\ fn_in \in ResolveInputs
       \/ fn = "_add_arguments_from" /\ fn_in \in AddArgumentsInputs
       \/ fn = "__add__" /\ fn_in \in [self : Arities, other : Arities]
       \/ fn = "sum" /\ fn_in \in SumInputs

NextIO ==
    \/ ApplyCliNargs
    \/ ResolveCliParser
    \/ CallCliParserStep
    \/ ApplyUnionConfigDecode
    \/ ApplyResolve
    \/ ApplyAddArgumentsFrom
    \/ ApplyAdd
    \/ ApplySum

SpecIO == InitIO /\ [][NextIO]_vars

\* argument lists of up to MaxArgs positional arguments
MaxArgs == 3

RawArgs == <<Val("str", <<"1">>), Val("str", <<"a">>), Val("int", 2)>>

\* the mapping with the keys K among the reserved keys and the key other
ConfWithKeys(K, classpath, args, kwargs) ==
    Val("dict", [k \in K |->
                    IF k = CLASSPATH_KEY THEN classpath
                    ELSE IF k = CONSTRUCTOR_KEY THEN "make_class"
                    ELSE IF k = ARGS_KEY THEN args
                    ELSE IF k = KWARGS_KEY THEN kwargs
                    ELSE Val("int", 1)])

NonMappings == <<Val("int", 2), Val("str", <<"1">>), Val("list", <<Val("int", 2)>>), PyNone>>

\* values that are not mappings; a classpath with any positional and keyword
\* arguments; every set of keys among the reserved keys and the key other
InitInflateConf ==
    \/ \E i \in DOMAIN NonMappings : fn_in = [conf |-> NonMappings[i]]
    \/ \E n \in 0..MaxArgs : \E a \in [1..n -> DOMAIN RawArgs] :
       \E K \in SUBSET {"x", "y", "z"} : \E kw \in [K -> DOMAIN RawArgs] :
           fn_in = [conf |-> ConfWithKeys({CLASSPATH_KEY, ARGS_KEY, KWARGS_KEY}, "Class",
                                 Val("list", [i \in 1..n |-> RawArgs[a[i]]]),
                                 Val("dict", [k \in K |-> RawArgs[kw[k]]]))]
    \/ \E K \in SUBSET (INFLATABLE_CONFIG_KEYS \cup {"other"}) :
       \E c \in {"Class", "CLASSPATH"} :
           fn_in = [conf |-> ConfWithKeys(K, c,
                                 Val("list", <<Val("str", <<"1">>), Val("int", 2)>>),
                                 Val("dict", [k \in {"z"} |-> Val("int", 2)]))]

InitInflate ==
    /\ InitNoCommand
    /\ InitNoObjects
    /\ fn_out = None
    /\ fn = "inflate_config"
    /\ InitInflateConf

NextInflate == ApplyInflateConfig

SpecInflate == InitInflate /\ [][NextInflate]_vars

(***************************************************************************)
(* The TypedIO cache under threads (typed_io/main.py, typed_io/utils.py).  *)
(* Every thread evaluates TypedIO(type_).attr for the same type and the    *)
(* same cached property.  A step is one operation on shared state (a dict  *)
(* lookup, a dict store), which the interpreter performs atomically; the   *)
(* threads are interleaved between the steps in every order.               *)
(***************************************************************************)
NumThreads == 2

Threads == 1..NumThreads

\* the key under which lru_cache keeps the result of TypedIO.__new__
CacheKey(T) == <<"TypedIO", T>>

\* the getter the cached property wraps: the dispatcher applied to self.type_
Artifact(attr, T) ==
    IF attr = "cli_nargs" THEN cli_nargs(T) ELSE cli_parser(T)

\* a thread before its call of TypedIO(type_)
ThreadStart ==
    [pc |-> "call", obj |-> 0, value |-> None, result |-> None,
     computed |-> FALSE, raised |-> "none"]

SetThread(t, r) == threads' = [threads EXCEPT ![t] = r]

SetAttr(o, name, v) ==
    instance_dict' =
        [instance_dict EXCEPT ![o] =
            [n \in DOMAIN instance_dict[o] \cup {name} |->
                IF n = name THEN v ELSE instance_dict[o][n]]]

\* a cached_property that returns whatever the instance dict gave,
\* the sentinel included
AfterGetNoCheck(value) == "return"

\* newmethod: `if value is sentinel` decides between computing and returning
AfterGet(value) == IF value = None THEN "compute" ELSE "return"

\* the lru_cache wrapper of TypedIO.__new__ looks the key up
NewLookup(t) ==
    /\ fn = "TypedIO"
    /\ threads[t].pc = "call"
    /\ IF CacheKey(fn_in.type) \in DOMAIN lru_cache
       THEN SetThread(t, [threads[t] EXCEPT !.pc = "init",
                                           !.obj = lru_cache[CacheKey(fn_in.type)]])
       ELSE SetThread(t, [threads[t] EXCEPT !.pc = "new"])
    /\ UNCHANGED <<lru_cache, instance_dict, subcommands, registrations,
                 interface, runs>>
    /\ UNCHANGED <<cmd_vars, run_vars, fn_vars>>

\* TypedIO.__new__ on a miss: object.__new__(cls), then cls.__init__(new, type_);
\* the object is known to this thread only
New(t) ==
    /\ fn = "TypedIO"
    /\ threads[t].pc = "new"
    /\ instance_dict' =
           [o \in DOMAIN instance_dict \cup {t} |->
               IF o = t THEN [n \in {"type_"} |-> fn_in.type] ELSE instance_dict[o]]
    /\ SetThread(t, [threads[t] EXCEPT !.pc = "cache", !.obj = t])
    /\ UNCHANGED <<lru_cache, subcommands, registrations,
                 interface, runs>>
    /\ UNCHANGED <<cmd_vars, run_vars, fn_vars>>

\* the lru_cache wrapper stores the result of the call under the key
CacheStore(t) ==
    /\ fn = "TypedIO"
    /\ threads[t].pc = "cache"
    /\ lru_cache' =
           [k \in DOMAIN lru_cache \cup {CacheKey(fn_in.type)} |->
               IF k = CacheKey(fn_in.type) THEN threads[t].obj ELSE lru_cache[k]]
    /\ SetThread(t, [threads[t] EXCEPT !.pc = "init"])
    /\ UNCHANGED <<instance_dict, subcommands, registrations,
                 interface, runs>>
    /\ UNCHANGED <<cmd_vars, run_vars, fn_vars>>

\* type.__call__ runs __init__ on the object __new__ returned, cached or not
InitObject(t) ==
    /\ fn = "TypedIO"
    /\ threads[t].pc = "init"
    /\ SetAttr(threads[t].obj, "type_", fn_in.type)
    /\ SetThread(t, [threads[t] EXCEPT !.pc = "get"])
    /\ UNCHANGED <<lru_cache, subcommands, registrations,
                 interface, runs>>
    /\ UNCHANGED <<cmd_vars, run_vars, fn_vars>>

\* newmethod: value = self.__dict__.get(attr, sentinel)
Get(t) ==
    /\ fn = "TypedIO"
    /\ threads[t].pc = "get"
    /\ LET d     == instance_dict[threads[t].obj]
           value == IF fn_in.attr \in DOMAIN d THEN Some(d[fn_in.attr]) ELSE None
       IN  SetThread(t, [threads[t] EXCEPT !.pc = AfterGet(value), !.value = value])
    /\ UNCHANGED <<lru_cache, instance_dict, subcommands, registrations,
                 interface, runs>>
    /\ UNCHANGED <<cmd_vars, run_vars, fn_vars>>

\* newmethod: value = method(self)
Compute(t) ==
    /\ fn = "TypedIO"
    /\ threads[t].pc = "compute"
    /\ LET d == instance_dict[threads[t].obj]
           Got(res) ==
               IF res.raised # "none"
               THEN SetThread(t, [threads[t] EXCEPT !.pc = "raised",
                                                   !.raised = res.raised])
               ELSE SetThread(t, [threads[t] EXCEPT !.pc = "store",
                                                   !.value = Some(res.value),
                                                   !.computed = TRUE])
       IN  IF "type_" \notin DOMAIN d
           THEN SetThread(t, [threads[t] EXCEPT !.pc = "raised",
                                               !.raised = "AttributeError"])
           ELSE Got(Artifact(fn_in.attr, d["type_"]))
    /\ UNCHANGED <<lru_cache, instance_dict, subcommands, registrations,
                 interface, runs>>
    /\ UNCHANGED <<cmd_vars, run_vars, fn_vars>>

\* newmethod: self.__dict__[attr] = value
Store(t) ==
    /\ fn = "TypedIO"
    /\ threads[t].pc = "store"
    /\ SetAttr(threads[t].obj, fn_in.attr, threads[t].value[1])
    /\ SetThread(t, [threads[t] EXCEPT !.pc = "return"])
    /\ UNCHANGED <<lru_cache, subcommands, registrations,
                 interface, runs>>
    /\ UNCHANGED <<cmd_vars, run_vars, fn_vars>>

\* newmethod: return value
Return(t) ==
    /\ fn = "TypedIO"
    /\ threads[t].pc = "return"
    /\ SetThread(t, [threads[t] EXCEPT !.pc = "done", !.result = threads[t].value])
    /\ UNCHANGED <<lru_cache, instance_dict, subcommands, registrations,
                 interface, runs>>
    /\ UNCHANGED <<cmd_vars, run_vars, fn_vars>>

\* the types and cached properties the threads ask for
CacheTypes ==
    {<<"int">>, <<"str">>, <<"List", <<"int">>>>, <<"Tuple", <<"int">>, <<"int">>>>,
     <<"List", <<"List", <<"int">>>>>>, <<"Custom">>}

CachedProperties == {"cli_nargs", "cli_parser"}

InitCache ==
    /\ InitNoCommand
    /\ fn = "TypedIO"
    /\ fn_in \in {[type |-> T, attr |-> a] : T \in CacheTypes, a \in CachedProperties}
    /\ fn_out = None
    /\ lru_cache = EmptyMap
    /\ instance_dict = EmptyMap
    /\ threads = [t \in Threads |-> ThreadStart]
    /\ subcommands = EmptyMap
    /\ registrations = <<>>
    /\ interface = None
    /\ runs = <<>>

NextCache ==
    \E t \in Threads :
        \/ NewLookup(t)
        \/ New(t)
        \/ CacheStore(t)
        \/ InitObject(t)
        \/ Get(t)
        \/ Compute(t)
        \/ Store(t)
        \/ Return(t)

SpecCache == InitCache /\ [][NextCache]_vars

(***************************************************************************)
(* The subcommand registry of a CommandLineInterface (cli/main.py).  The   *)
(* nested dict self.subcommands, name -> (command, nested dict), is kept   *)
(* as the mapping from the path of each node to its command, None for a    *)
(* node without command; the entry of the empty path is self._main.        *)
(***************************************************************************)
\* the paths cmd_path[:1], ..., cmd_path[:-1]
ProperPrefixes(cmd_path) == {SubSeq(cmd_path, 1, n) : n \in 1..(Len(cmd_path) - 1)}

\* the loop over cmd_path[:-1]: missing nodes are created with (None, {})
WithPrefixes(cmds, cmd_path) ==
    [p \in DOMAIN cmds \cup ProperPrefixes(cmd_path) |->
        IF p \in DOMAIN cmds THEN cmds[p] ELSE None]

\* the nodes below the path
Below(cmds, path) ==
    {p \in DOMAIN cmds : Len(p) > Len(path) /\ SubSeq(p, 1, Len(path)) = path}

\* variant: cmds[cmd_name] = subcommand, {} -- the nested commands are dropped
SetSubcommandDroppingNested(cmds, cmd_path, subcommand) ==
    LET walked == WithPrefixes(cmds, cmd_path)
        prior  == IF cmd_path \in DOMAIN walked THEN walked[cmd_path] ELSE None
    IN  IF prior # None /\ prior # Some(subcommand)
        THEN [raised |-> "NameError", subcommands |-> walked]
        ELSE [raised |-> "none",
              subcommands |->
                  [p \in (DOMAIN walked \ Below(walked, cmd_path)) \cup {cmd_path} |->
                      IF p = cmd_path THEN Some(subcommand) ELSE walked[p]]]

\* CommandLineInterface._set_subcommand( *cmd_path, subcommand=subcommand)
_set_subcommand(cmds, cmd_path, subcommand) ==
    LET walked == WithPrefixes(cmds, cmd_path)
        prior  == IF cmd_path \in DOMAIN walked THEN walked[cmd_path] ELSE None
    IN  IF prior # None /\ prior # Some(subcommand)
        THEN [raised |-> "NameError", subcommands |-> walked]
        ELSE [raised |-> "none",
              subcommands |->
                  [p \in DOMAIN walked \cup {cmd_path} |->
                      IF p = cmd_path THEN Some(subcommand) ELSE walked[p]]]

\* the order in which the names of a level are visited
CommandNames == <<"a", "b">>

\* inner(prefix, commands) of all_subcommands
RECURSIVE Inner(_, _, _)
Inner(cmds, prefix, i) ==
    IF i > Len(CommandNames) THEN <<>>
    ELSE LET pre == Append(prefix, CommandNames[i])
         IN  (IF pre \notin DOMAIN cmds THEN <<>>
              ELSE (IF cmds[pre] # None THEN << <<pre, cmds[pre][1]>> >> ELSE <<>>)
                   \o Inner(cmds, pre, 1))
             \o Inner(cmds, prefix, i + 1)

\* CommandLineInterface.all_subcommands(): the (path, command) pairs yielded
all_subcommands(cmds) ==
    (IF cmds[<<>>] # None THEN << <<<<>>, cmds[<<>>][1]>> >> ELSE <<>>)
    \o Inner(cmds, <<>>, 1)

MaxRegistrations == 3

MaxPathLen == 2

CommandPaths == SeqsOf(Range(CommandNames), 1, MaxPathLen)

SubCommandFuncs == {"f", "g"}

Registration(path, subcommand, raised, before) ==
    [path |-> path, subcommand |-> subcommand, raised |-> raised, before |-> before]

\* add_arguments_from for a subcommand: self._set_subcommand
SetSubcommand(cmd_path, subcommand) ==
    /\ fn = "registry"
    /\ Len(registrations) < MaxRegistrations
    /\ LET Done(res) ==
               /\ subcommands' = res.subcommands
               /\ registrations' =
                      Append(registrations,
                             Registration(cmd_path, subcommand, res.raised, subcommands))
       IN  Done(_set_subcommand(subcommands, cmd_path, subcommand))
    /\ UNCHANGED <<lru_cache, instance_dict, threads, interface, runs>>
    /\ UNCHANGED <<cmd_vars, run_vars, fn_vars>>

\* add_arguments_from for the main command: self._main = subcmd_func
SetMain(subcommand) ==
    /\ fn = "registry"
    /\ Len(registrations) < MaxRegistrations
    /\ subcommands' = [subcommands EXCEPT ![<<>>] = Some(subcommand)]
    /\ registrations' =
           Append(registrations, Registration(<<>>, subcommand, "none", subcommands))
    /\ UNCHANGED <<lru_cache, instance_dict, threads, interface, runs>>
    /\ UNCHANGED <<cmd_vars, run_vars, fn_vars>>

\* CommandLineInterface.__init__: self.subcommands = {}, self._main = None
InitRegistry ==
    /\ InitNoCommand
    /\ fn = "registry"
    /\ fn_in = None
    /\ fn_out = None
    /\ lru_cache = EmptyMap
    /\ instance_dict = EmptyMap
    /\ threads = EmptyMap
    /\ subcommands = [p \in {<<>>} |-> None]
    /\ registrations = <<>>
    /\ interface = None
    /\ runs = <<>>

NextRegistry ==
    \/ \E cmd_path \in CommandPaths, subcommand \in SubCommandFuncs :
           SetSubcommand(cmd_path, subcommand)
    \/ \E subcommand \in SubCommandFuncs : SetMain(subcommand)

SpecRegistry == InitRegistry /\ [][NextRegistry]_vars

(***************************************************************************)
(* CommandLineInterface.run (cli/main.py).  A run is recorded with the     *)
(* command path of the parsed namespace, the application object it created *)
(* and the calls of SubCommandFunc.execute it made, in order.              *)
(***************************************************************************)
Execution(func, instance, with_output) ==
    [func |-> func, instance |-> instance, handle_output |-> with_output]

RunResult(cmd_path, app_obj, executions, outcome) ==
    [cmd_path |-> cmd_path, app_obj |-> app_obj, executions |-> executions,
     outcome |-> outcome]

\* variant: the main command is executed first whenever one is registered
MainRunsFirstAlways(main, main_cmd) == main_cmd # None

\* (not main) and self._main is not None
MainRunsFirst(main, main_cmd) == (~main) /\ main_cmd # None

\* run: parse_args with validate_namespace, get_subcommand_func, the choice
\* of the main command, the creation of the application object and the calls
\* of execute; raising holds the functions whose execute raises, fresh is the
\* identity of the object app_cls.__new__ returns
run(cmds, iface, cmd_path, raising, fresh) ==
    IF iface.require_subcommand /\ (DOMAIN cmds = {<<>>} \/ cmd_path = None)
    THEN RunResult(cmd_path, None, <<>>, "SystemExit")
    ELSE LET found == IF cmd_path = None THEN None ELSE cmds[cmd_path]
             main  == cmd_path = None /\ ~iface.require_subcommand
             func  == IF main THEN cmds[<<>>] ELSE found
         IN  IF main /\ func = None
             THEN RunResult(cmd_path, None, <<>>, "SystemExit")
             ELSE LET \* cmd is "MAIN" or the path: "MAIN" is no reserved name
                      reserved == (~main) /\ cmd_path \in iface.reserved_command_names
                      create   == iface.app_cls # None /\ ~reserved
                      app_obj  == IF create THEN Some(fresh) ELSE None
                      first    == IF create /\ MainRunsFirst(main, cmds[<<>>])
                                  THEN <<Execution(cmds[<<>>][1], app_obj, FALSE)>>
                                  ELSE <<>>
                  IN  IF first # <<>> /\ cmds[<<>>][1] \in raising
                      THEN RunResult(cmd_path, app_obj, first, "raised")
                      ELSE IF func = None
                      THEN RunResult(cmd_path, app_obj, first, "AttributeError")
                      ELSE RunResult(cmd_path, app_obj,
                                     Append(first, Execution(func[1], app_obj, TRUE)),
                                     IF func[1] \in raising THEN "raised"
                                     ELSE "returned")

MaxRuns == 2

\* the default name of the builtin command, to_cmd_line_name("init_config")
INIT_CONFIG_COMMAND == <<"init-config">>

\* the registrations of a class-defined interface with the methods a and
\* b a, and of the builtin command in add_builtin_commands
RunRegistrations == << <<<<"a">>, "f">>, <<<<"b", "a">>, "g">>,
                       <<INIT_CONFIG_COMMAND, "init_config">> >>

RECURSIVE RegisterAll(_, _, _)
RegisterAll(cmds, regs, i) ==
    IF i > Len(regs) THEN cmds
    ELSE RegisterAll(_set_subcommand(cmds, regs[i][1], regs[i][2]).subcommands,
                     regs, i + 1)

\* the registries of the runs: with and without a main command and methods
RunRegistries ==
    {RegisterAll([p \in {<<>>} |-> m], regs, 1) :
        m \in {None, Some("__init__")},
        regs \in {RunRegistrations, SubSeq(RunRegistrations, 3, 3), <<>>}}

\* the command paths a namespace can hold: None or a path of the parsers
RunPaths(cmds) == {None} \cup (DOMAIN cmds \ {<<>>})

Run(cmd_path, raising) ==
    /\ fn = "run"
    /\ Len(runs) < MaxRuns
    /\ cmd_path \in RunPaths(subcommands)
    /\ runs' = Append(runs, run(subcommands, interface, cmd_path, raising,
                                Len(runs) + 1))
    /\ UNCHANGED <<lru_cache, instance_dict, threads, subcommands, registrations,
                   interface>>
    /\ UNCHANGED <<cmd_vars, run_vars, fn_vars>>

InitCliRun ==
    /\ InitNoCommand
    /\ fn = "run"
    /\ fn_in = None
    /\ fn_out = None
    /\ lru_cache = EmptyMap
    /\ instance_dict = EmptyMap
    /\ threads = EmptyMap
    /\ subcommands \in RunRegistries
    /\ registrations = <<>>
    /\ interface \in [app_cls : {None, Some("App")},
                      require_subcommand : BOOLEAN,
                      reserved_command_names : {{INIT_CONFIG_COMMAND}}]
    /\ runs = <<>>

NextRun ==
    \E cmd_path \in {None} \cup CommandPaths \cup {INIT_CONFIG_COMMAND},
       raising \in SUBSET {"__init__", "f"} :
        Run(cmd_path, raising)

SpecRun == InitCliRun /\ [][NextRun]_vars

(***************************************************************************)
(* Properties of the resolution protocol                                   *)
(***************************************************************************)
\* the lookup loop of prepare_args_kwargs has run
LookupDone ==
    \/ pc \in {"decode", "prepared", "called", "returned"}
    \/ pc = "raised" /\ error.type # "KeyError"

\* positions of the effective order whose mapping holds name n
Holders(n) ==
    {i \in 1..Len(eff_order) :
        /\ lookup[eff_order[i]] # None
        /\ n \in DOMAIN lookup[eff_order[i]][1]}

FirstHolder(n) == CHOOSE i \in Holders(n) : \A j \in Holders(n) : i <= j

\* positions of values that belong to name n
EntriesFor(n) == {i \in DOMAIN values : values[i].name = n}

\* C1: after the lookup loop, every name of the parse order that some source
\* holds has exactly one entry in values, tagged with the first source of the
\* effective lookup order whose mapping contains the name and carrying that
\* mapping's value (also when the value is falsy); a name no source holds has
\* no entry.  This holds for every parse order.
C1_FirstHoldingSourceWins ==
    LookupDone =>
        \A n \in Range(parse_order) :
            IF Holders(n) = {} THEN EntriesFor(n) = {}
            ELSE /\ Cardinality(EntriesFor(n)) = 1
                 /\ \A i \in EntriesFor(n) :
                        /\ values[i].source = eff_order[FirstHolder(n)]
                        /\ values[i].value = lookup[eff_order[FirstHolder(n)]][1][n]

\* C1 witness: with order (CLI, CONFIG) the command line holds the falsy "0"
\* for a, the config holds "7", and the entry of a is the command line's
C1_Witness ==
    /\ pc = "decode"
    /\ lookup_order = <<CLI, CONFIG>>
    /\ lookup[CLI] # None /\ lookup[CONFIG] # None
    /\ "a" \in DOMAIN lookup[CLI][1] /\ lookup[CLI][1]["a"] = "0"
    /\ "a" \in DOMAIN lookup[CONFIG][1] /\ lookup[CONFIG][1]["a"] = "7"
    /\ \E i \in DOMAIN values :
           values[i] = [name |-> "a", source |-> CLI, value |-> "0"]

\* the effective order has been computed
OrderComputed == pc # "idle" /\ error.type # "KeyError"

AbsentNames == {n \in Range(parse_order) : Holders(n) = {}}

\* C3: when names of the parse order are held by no source, the lookup loop
\* ends in one ValueError that names each of them exactly once, and no
\* parameter is decoded; when every name is held, no ValueError is raised
C3_AllMissingNamed ==
    LookupDone =>
        IF AbsentNames = {}
        THEN error.type # "ValueError"
        ELSE /\ pc = "raised"
             /\ error.type = "ValueError"
             /\ Range(error.names) = AbsentNames
             /\ Len(error.names) = Cardinality(AbsentNames)
             /\ parse_log = <<>>
             /\ calls = <<>>

\* C3 witness: two parameters are absent from every source and both are named
C3_Witness ==
    /\ pc = "raised"
    /\ error.type = "ValueError"
    /\ Cardinality(AbsentNames) >= 2
    /\ Range(error.names) = {"a", "o"}

\* the parser the claim expects for a value supplied by the given source
ExpectedParser(source, name) ==
    IF source = CLI THEN "cli_parser"
    ELSE IF source = ENV THEN "env_parser"
    ELSE IF source = CONFIG
         THEN (IF name \in parse_config_as_cli THEN "cli_parser" ELSE "config_decoder")
         ELSE "identity"

\* C4: the i-th parser application decodes the i-th resolved entry, and the
\* parser is fixed by the entry's source: cli parser for CLI, config decoder
\* for CONFIG unless the name is in parse_config_as_cli (then cli parser),
\* env parser for ENV whether or not the name is in parse_config_as_cli
C4_ParserBySource ==
    /\ Len(parse_log) <= Len(values)
    /\ \A i \in DOMAIN parse_log :
           /\ parse_log[i].name = values[i].name
           /\ parse_log[i].source = values[i].source
           /\ parse_log[i].raw = values[i].value
           /\ parse_log[i].parser = ExpectedParser(values[i].source, values[i].name)

\* C4 witness: a value of a, which is listed in parse_config_as_cli, came
\* from ENV and was decoded by the env parser
C4_Witness ==
    /\ "a" \in parse_config_as_cli
    /\ \E i \in DOMAIN parse_log :
           /\ parse_log[i].name = "a"
           /\ parse_log[i].source = ENV
           /\ parse_log[i].parser = "env_parser"

\* the entry of values that belongs to name n
EntryOf(n) == values[CHOOSE i \in DOMAIN values : values[i].name = n]

\* C6: func is called at most once and only after every argument is
\* resolved, with the resolved arguments; the handler is called at most once,
\* only after func returned and only when handle_output is true and a handler
\* is registered, with the return value first and then the arguments resolved
\* for its own parameters; execute returns func's return value, after the
\* handler call when one is due; an error of the resolution leaves no call,
\* an error of func leaves no handler call
C6_ExecuteProtocol ==
    /\ Len(calls) <= 2
    /\ pc \in {"idle", "lookup", "decode", "prepared"} => calls = <<>>
    /\ pc = "called" => Len(calls) = 1
    /\ calls # <<>> =>
           /\ calls[1] = CallOf("func", final_args, final_kwargs)
           /\ ix = Len(values)
           /\ Range(parse_order) = {values[i].name : i \in DOMAIN values}
    /\ Len(calls) = 2 =>
           /\ handle_output /\ output_handler
           /\ calls[2].target = "output_handler"
           /\ calls[2].args = <<RetVal>> \o final_output_args
           /\ DOMAIN calls[2].kwargs =
                  OutputParamNames(signature) \ Range(output_positional_names)
           /\ \A n \in DOMAIN calls[2].kwargs :
                  calls[2].kwargs[n] =
                      Decoded(ExpectedParser(EntryOf(n).source, n), EntryOf(n).value)
    /\ pc = "returned" =>
           /\ result = Some(RetVal)
           /\ error = NoError
           /\ Len(calls) = IF handle_output /\ output_handler THEN 2 ELSE 1
    /\ pc # "returned" => result = None
    /\ error.type \in {"KeyError", "ValueError", "TypedInputError", "TypeError"} =>
           calls = <<>>
    /\ error.type = "FuncError" => Len(calls) = 1

\* C6 witness: execute returned after calling func and then the handler with
\* the return value and the handler's own resolved argument o
C6_Witness ==
    /\ pc = "returned"
    /\ Len(calls) = 2
    /\ calls[1].target = "func"
    /\ calls[2] = CallOf("output_handler", <<RetVal>>,
                         [n \in {"o"} |-> Decoded("identity", "7")])
    /\ result = Some(RetVal)

\* what get_env is claimed to return: for each opted-in parameter whose
\* variable is set, the value of that variable
ClaimedEnv ==
    [p \in {q \in DOMAIN parse_env : parse_env[q] \in DOMAIN environ} |->
        environ[parse_env[p]]]

\* C8: get_env does not raise, and with parameters opted in it returns
\* exactly the entries p -> value of the variable declared for p, for the
\* declared variables that are set
C8_GetEnvReadsDeclaredVariable ==
    /\ error.type # "KeyError"
    /\ (pc # "idle" /\ DOMAIN parse_env # {}) => lookup[ENV] = Some(ClaimedEnv)

\* the decoded value of the resolved entry of name n, by the parser the
\* entry's source selects
DecodedEntry(n) ==
    ApplyParser(ExpectedParser(EntryOf(n).source, n), ParamOf(signature, n).kind,
                EntryOf(n).value)

\* the names of the function's parameters of the given kinds
FuncNamesOfKind(kinds) ==
    {FuncSig(signature)[i].name :
        i \in {j \in DOMAIN FuncSig(signature) : FuncSig(signature)[j].kind \in kinds}}

\* the decoded *args collection of the function, empty without *args
DecodedVarArgs ==
    IF FuncNamesOfKind({VAR_POSITIONAL}) = {} THEN <<>>
    ELSE DecodedEntry(CHOOSE n \in FuncNamesOfKind({VAR_POSITIONAL}) : TRUE)

\* C5: once prepare_args_kwargs has returned, the positional arguments are
\* the decoded values of the leading positional parameters in declared
\* order followed by the decoded *args elements, every other named
\* parameter of the function is a keyword argument under its own name with
\* its decoded value, and no leading positional is a keyword argument;
\* for every parse order
C5_ArgsThenKwargs ==
    pc \in {"prepared", "called", "returned"} =>
        /\ final_args =
               [i \in 1..Len(positional_names) |-> DecodedEntry(positional_names[i])]
               \o DecodedVarArgs
        /\ \A n \in FuncNamesOfKind({POSITIONAL_OR_KEYWORD, KEYWORD_ONLY})
                     \ Range(positional_names) :
               n \in DOMAIN final_kwargs /\ final_kwargs[n] = DecodedEntry(n)
        /\ Range(positional_names) \cap DOMAIN final_kwargs = {}

\* the parser applications whose result fails the type check
FailedTypechecks ==
    {i \in DOMAIN parse_log :
        LET param == ParamOf(signature, parse_log[i].name)
        IN  /\ parse_log[i].name \in typecheck
            /\ param.annotation # None
            /\ ~ParserRaises(parse_log[i].parser, param.kind, parse_log[i].raw)
            /\ ~IsInstanceGeneric(
                   ApplyParser(parse_log[i].parser, param.kind, parse_log[i].raw),
                   param.kind)}

\* C7: a decoded value of a type-checked annotated parameter that is not an
\* instance of the declared type is the last value decoded, leaves
\* prepare_args_kwargs in a TypeError before func is called, and the
\* TypeError's message holds the parsed value and the expected type
C7_TypecheckRaisesWithValueAndType ==
    \A i \in FailedTypechecks :
        LET param == ParamOf(signature, parse_log[i].name)
        IN  /\ i = Len(parse_log)
            /\ pc = "raised"
            /\ calls = <<>>
            /\ error.type = "TypeError"
            /\ error.vals =
                   <<ApplyParser(parse_log[i].parser, param.kind, parse_log[i].raw)>>
            /\ error.types = <<param.annotation[1]>>

\* C9: compute_parse_order raises NameError only when an entry is neither a
\* parameter name nor Ellipsis; with parse_order None it returns all names;
\* with a wildcard it returns the names before the wildcard as given, then
\* all unlisted names, then the names after the wildcard as given; without
\* a wildcard it returns the listed names as given
C9_WildcardParseOrder ==
    (fn = "compute_parse_order" /\ fn_out # None) =>
        LET po    == fn_in.parse_order
            names == fn_in.param_names
            out   == fn_out[1]
        IN  IF po = None
            THEN out.raised = "none" /\ out.value \in Perms(names)
            ELSE IF \E i \in DOMAIN po[1] : po[1][i] \notin names \cup {Ellipsis}
            THEN out.raised = "NameError"
            ELSE /\ out.raised = "none"
                 /\ LET e == EllipsisIx(po[1])
                    IN  IF e = 0 THEN out.value = po[1]
                        ELSE \E m \in Perms(names \ Range(po[1])) :
                                 out.value = SubSeq(po[1], 1, e - 1) \o m
                                             \o SubSeq(po[1], e + 1, Len(po[1]))

\* C10: for every value x of a supported type T, decoding the encoding of
\* x does not raise and yields x with its type
C10_ConfigRoundTrip ==
    (fn = "round_trip" /\ fn_out # None) =>
        fn_out[1].decoded = Some(fn_in.value)

(***************************************************************************)
(* Properties of the typed I/O artifacts                                   *)
(***************************************************************************)
\* the field types of a fixed tuple or namedtuple type
FieldTypes(T) == IF is_named_tuple_class(T[1]) THEN NamedTupleArgTypes(T[1]) ELSE Tail(T)

\* the number of tokens a field of type T occupies; 0 for a field that takes
\* all remaining tokens
RECURSIVE FieldArity(_)
FieldArity(T) ==
    IF T[1] = "Tuple" \/ is_named_tuple_class(T[1])
    THEN LET ts == FieldTypes(T)
             RECURSIVE total(_)
             total(k) == IF k = 0 THEN 0 ELSE total(k - 1) + FieldArity(ts[k])
         IN  total(Len(ts))
    ELSE IF T[1] \in CollectionTypes THEN 0
    ELSE 1

\* the number of tokens the fields before field i occupy
RECURSIVE FieldOffset(_, _)
FieldOffset(types, i) ==
    IF i = 1 THEN 0 ELSE FieldOffset(types, i - 1) + FieldArity(types[i - 1])

\* field i's own slice of the tokens: the token itself for a single-token
\* field, the list of its n tokens for a field of fixed arity n, the list of
\* all remaining tokens for a variable-length field
OwnSlice(types, tokens, i) ==
    LET at == FieldOffset(types, i)
    IN  IF types[i][1] \in CollectionTypes
        THEN Val("list", SubSeq(tokens, at + 1, Len(tokens)))
        ELSE IF types[i][1] = "Tuple" \/ is_named_tuple_class(types[i][1])
        THEN Val("list", SubSeq(tokens, at + 1, at + FieldArity(types[i])))
        ELSE tokens[at + 1]

\* a call of the parser of a fixed tuple type on a list of as many tokens as
\* its fields occupy
TupleParserCalled ==
    /\ fn = "cli_parse"
    /\ fn_out # None
    /\ fn_out[1].stage = "called"
    /\ fn_out[1].parser.value.kind = "TupleCLIParser"
    /\ fn_in.raw.t = "list"
    /\ Len(fn_in.raw.v) = FieldArity(fn_in.type)

\* C11: the parser of a fixed tuple or namedtuple type hands the parser of
\* each field that field's own slice of the tokens, in field order, and
\* Tuple[int, int, int] applied to ["1", "2", "3"] returns (1, 2, 3)
C11_FieldsGetOwnSlices ==
    TupleParserCalled =>
        /\ \A i \in DOMAIN fn_out[1].chunks :
               LET chunk == fn_out[1].chunks[i]
                   own   == OwnSlice(FieldTypes(fn_in.type), fn_in.raw.v, i)
               IN  /\ chunk.raised = "none"
                   /\ chunk.value.t = own.t
                   /\ chunk.value.v = own.v
        /\ ( /\ fn_in.type = <<"Tuple", <<"int">>, <<"int">>, <<"int">>>>
             /\ fn_in.raw = Val("list", <<Val("str", <<"1">>), Val("str", <<"2">>),
                                          Val("str", <<"3">>)>>) )
           => /\ fn_out[1].outcome.raised = "none"
              /\ fn_out[1].outcome.value.t = "tuple"
              /\ fn_out[1].outcome.value.v = <<Val("int", 1), Val("int", 2), Val("int", 3)>>

\* the index of the first join character of a token
FirstJoin(s) == CHOOSE k \in DOMAIN s : s[k] = "=" /\ \A j \in 1..(k - 1) : s[j] # "="

\* the pair a key=value token stands for under a Mapping type T: the text
\* before the first join character as key, the text after it parsed as value
PairOf(T, token) ==
    LET at == FirstJoin(token.v)
    IN  <<Val("str", SubSeq(token.v, 1, at - 1)),
          Construct(IF Len(T) >= 3 THEN T[3][1] ELSE "int",
                    Val("str", SubSeq(token.v, at + 1, Len(token.v)))).value>>

\* C12: for a Mapping type with single-token key and value types cli_parser
\* returns a parser, and the parser applied to key=value tokens whose parts
\* parse returns the mapping of the pairs split at the first join character,
\* of class Counter or ChainMap for these types
C12_MappingParserSplitsAtFirstJoin ==
    (fn = "cli_parse" /\ fn_out # None /\ fn_in.type[1] \in MappingTypes) =>
        /\ fn_out[1].parser.raised = "none"
        /\ ( /\ fn_out[1].stage = "called"
             /\ \A i \in DOMAIN fn_in.raw.v :
                    /\ "=" \in Range(fn_in.raw.v[i].v)
                    /\ Construct(IF Len(fn_in.type) >= 3 THEN fn_in.type[3][1] ELSE "int",
                                 Val("str", SubSeq(fn_in.raw.v[i].v,
                                                   FirstJoin(fn_in.raw.v[i].v) + 1,
                                                   Len(fn_in.raw.v[i].v)))).raised = "none" )
           => /\ fn_out[1].outcome.raised = "none"
              /\ fn_out[1].outcome.value.t =
                     (IF fn_in.type[1] \in {"Counter", "ChainMap"} THEN fn_in.type[1]
                      ELSE "dict")
              /\ fn_out[1].outcome.value.v =
                     DictOf([i \in DOMAIN fn_in.raw.v |-> PairOf(fn_in.type, fn_in.raw.v[i])])

\* the branches of a union type on which the config value c decodes, by
\* their position in the declaration
DecodingBranches(T, c) ==
    {i \in DOMAIN Tail(T) : BranchDecode(Tail(T)[i], c).raised = "none"}

\* the positions of the branch parsers, among those of a union parser, that
\* return on the command line value arg
ParsingBranches(p, arg) ==
    {i \in DOMAIN p.funcs : CallCliParser(p.funcs[i], arg).raised = "none"}

Least(S) == CHOOSE i \in S : \A j \in S : i <= j

\* C13: a union decoder or parser returns the result of the earliest declared
\* branch that succeeds on the raw value and invokes no later branch; this
\* holds for the config decoder and for the parser that cli_parser returns
\* for the union
C13_FirstDeclaredBranchWins ==
    /\ (fn = "config_decode" /\ fn_out # None /\ DecodingBranches(fn_in.type, fn_in.raw) # {})
       => LET first == Least(DecodingBranches(fn_in.type, fn_in.raw))
          IN  /\ fn_out[1].outcome = BranchDecode(Tail(fn_in.type)[first], fn_in.raw)
              /\ Len(fn_out[1].invoked) <= first
              /\ \A i \in DOMAIN fn_out[1].invoked :
                     fn_out[1].invoked[i] = Tail(fn_in.type)[i]
    /\ (fn = "cli_parse" /\ fn_out # None /\ fn_in.type[1] = "Union")
       => /\ fn_out[1].parser.raised = "none"
          /\ fn_out[1].parser.value.kind = "UnionCLIParser"
          /\ ( /\ fn_out[1].stage = "called"
               /\ fn_in.raw.t # "NoneType"
               /\ ParsingBranches(fn_out[1].parser.value, fn_in.raw) # {} )
             => fn_out[1].outcome =
                    CallCliParser(
                        fn_out[1].parser.value.funcs[
                            Least(ParsingBranches(fn_out[1].parser.value, fn_in.raw))],
                        fn_in.raw)

IsOptionalType(T) == T[1] = "Union" /\ NoneType \in Range(Tail(T))

\* C14: for an Optional type the value None decodes to None and no branch
\* of the union is invoked, with the config decoder and with the parser that
\* cli_parser returns
C14_NoneSkipsBranches ==
    /\ (fn = "config_decode" /\ fn_out # None /\ IsOptionalType(fn_in.type)
            /\ fn_in.raw.t = "NoneType")
       => /\ fn_out[1].outcome.raised = "none"
          /\ fn_out[1].outcome.value.t = "NoneType"
          /\ fn_out[1].invoked = <<>>
    /\ (fn = "cli_parse" /\ fn_out # None /\ IsOptionalType(fn_in.type)
            /\ fn_in.raw.t = "NoneType")
       => /\ fn_out[1].parser.raised = "none"
          /\ fn_out[1].stage = "called"
             => /\ fn_out[1].outcome.raised = "none"
                /\ fn_out[1].outcome.value.t = "NoneType"

(***************************************************************************)
(* Properties of the declarative construction                              *)
(***************************************************************************)
InflateDone == fn = "inflate_config" /\ fn_out # None

\* a mapping whose keys are all reserved keys
ReservedKeysOnly(obj) == obj.t = "dict" /\ DOMAIN obj.v \subseteq INFLATABLE_CONFIG_KEYS

\* the value is returned as it is and nothing is imported or called
ReturnedUnchanged ==
    /\ ~fn_out[1].inflated
    /\ fn_out[1].imports = <<>>
    /\ fn_out[1].outcome.raised = "none"
    /\ fn_out[1].outcome.value = fn_in.conf

\* C15 as stated: inflate_config constructs from a value exactly if the value
\* is a mapping whose keys are all reserved keys, and returns every other
\* value unchanged without importing or calling anything
C15_InflatableIffReservedKeys ==
    InflateDone =>
        IF ReservedKeysOnly(fn_in.conf) THEN fn_out[1].inflated ELSE ReturnedUnchanged

\* C15 amended: inflate_config constructs from a value exactly if the value
\* is a mapping whose keys are all reserved keys and that holds the key
\* __classpath__ or the key __constructor__; it returns every other value
\* unchanged without importing or calling anything
C15_InflatableIffReservedKeysAndTarget ==
    InflateDone =>
        IF /\ ReservedKeysOnly(fn_in.conf)
           /\ (CLASSPATH_KEY \in DOMAIN fn_in.conf.v \/ CONSTRUCTOR_KEY \in DOMAIN fn_in.conf.v)
        THEN /\ fn_out[1].inflated
             /\ fn_out[1].imports # <<>>
        ELSE ReturnedUnchanged

\* a mapping that holds reserved keys only, none of them __classpath__ or
\* __constructor__, has been returned unchanged
C15_Witness ==
    /\ InflateDone
    /\ ReservedKeysOnly(fn_in.conf)
    /\ ARGS_KEY \in DOMAIN fn_in.conf.v
    /\ CLASSPATH_KEY \notin DOMAIN fn_in.conf.v
    /\ CONSTRUCTOR_KEY \notin DOMAIN fn_in.conf.v
    /\ ReturnedUnchanged

SameVal(a, b) == a.t = b.t /\ a.v = b.v

\* the positional and the keyword arguments the config supplies
SuppliedArgs == IF ARGS_KEY \in DOMAIN fn_in.conf.v THEN fn_in.conf.v[ARGS_KEY].v ELSE <<>>

SuppliedKwargs ==
    IF KWARGS_KEY \in DOMAIN fn_in.conf.v THEN fn_in.conf.v[KWARGS_KEY].v ELSE EmptyMap

\* the constructor has been called with decoded arguments
ConstructorCalled ==
    /\ InflateDone
    /\ fn_out[1].inflated
    /\ fn_out[1].outcome.raised = "none"
    /\ fn_out[1].outcome.value.called

\* the annotation of the parameter of Class.__init__ of the given name
AnnotationOf(name) == SigParam(ClassSignature, name).annotation

\* what the constructor must receive for the parameter name, given what it
\* received: the decoding, under the annotation of the parameter, of the
\* supplied argument that binds to the parameter, entry by entry for the
\* variadic parameters
ReceivedDecoded(name, got) ==
    LET pos == PositionalNames(ClassSignature)
    IN  IF name = "args"
        THEN LET extras == SubSeq(SuppliedArgs, Len(pos) + 1, Len(SuppliedArgs))
             IN  /\ got.t = "tuple"
                 /\ DOMAIN got.v = DOMAIN extras
                 /\ \A k \in DOMAIN extras :
                        /\ ConfigDecode(AnnotationOf(name), extras[k]) # None
                        /\ SameVal(got.v[k], ConfigDecode(AnnotationOf(name), extras[k])[1])
        ELSE IF name = "kwargs"
        THEN LET extra_kw == DOMAIN SuppliedKwargs \ Range(pos)
             IN  /\ got.t = "dict"
                 /\ DOMAIN got.v = extra_kw
                 /\ \A k \in extra_kw :
                        /\ ConfigDecode(AnnotationOf(name), SuppliedKwargs[k]) # None
                        /\ SameVal(got.v[k],
                                   ConfigDecode(AnnotationOf(name), SuppliedKwargs[k])[1])
        ELSE LET at  == CHOOSE i \in DOMAIN pos : pos[i] = name
                 raw == IF at <= Len(SuppliedArgs) THEN SuppliedArgs[at]
                        ELSE SuppliedKwargs[name]
             IN  /\ ConfigDecode(AnnotationOf(name), raw) # None
                 /\ SameVal(got, ConfigDecode(AnnotationOf(name), raw)[1])
                 /\ got.t = AnnotationOf(name)[1]

\* C16: when instance_from calls the constructor, every supplied argument
\* has been decoded with the config decoder of the parameter it binds to,
\* the extra positional and keyword arguments entry by entry, and the
\* constructor receives the decoded values and no raw value
C16_ArgumentsDecodedBeforeCall ==
    ConstructorCalled =>
        LET received == fn_out[1].outcome.value.received
            pos      == PositionalNames(ClassSignature)
        IN  /\ {received[i][1] : i \in DOMAIN received} =
                   Range(pos)
                   \cup (IF Len(SuppliedArgs) > Len(pos) THEN {"args"} ELSE {})
                   \cup (IF DOMAIN SuppliedKwargs \ Range(pos) # {} THEN {"kwargs"} ELSE {})
            /\ \A i \in DOMAIN received : ReceivedDecoded(received[i][1], received[i][2])

\* Class has been constructed from a raw text for its int parameter y, an
\* extra positional argument and an extra keyword argument given as text
C16_Witness ==
    /\ ConstructorCalled
    /\ Len(SuppliedArgs) = 3
    /\ SuppliedArgs[2].t = "str"
    /\ "z" \in DOMAIN SuppliedKwargs
    /\ SuppliedKwargs["z"].t = "str"

\* the supplied argument that binds to the parameter name does not decode
\* under the annotation of the parameter
FailsToDecode(name) ==
    LET pos == PositionalNames(ClassSignature)
    IN  IF name = "args"
        THEN \E k \in (Len(pos) + 1)..Len(SuppliedArgs) :
                 ConfigDecode(AnnotationOf(name), SuppliedArgs[k]) = None
        ELSE IF name = "kwargs"
        THEN \E k \in DOMAIN SuppliedKwargs \ Range(pos) :
                 ConfigDecode(AnnotationOf(name), SuppliedKwargs[k]) = None
        ELSE LET at == CHOOSE i \in DOMAIN pos : pos[i] = name
             IN  ConfigDecode(AnnotationOf(name),
                              IF at <= Len(SuppliedArgs) THEN SuppliedArgs[at]
                              ELSE SuppliedKwargs[name]) = None

\* the parameters of Class.__init__ in declared order, each with the name
\* under which an error message refers to it
NamedInMessage == << <<"x", "x">>, <<"y", "y">>, <<"args", "*args">>, <<"kwargs", "**kwargs">> >>

\* instance_from has bound the supplied arguments to the parameters of the
\* imported class and decoding one of them failed
DecodingFailed ==
    /\ InflateDone
    /\ fn_out[1].inflated
    /\ CLASSPATH_KEY \in DOMAIN fn_in.conf.v => fn_in.conf.v[CLASSPATH_KEY] \in ImportableTypes
    /\ CONSTRUCTOR_KEY \in DOMAIN fn_in.conf.v
           => fn_in.conf.v[CONSTRUCTOR_KEY] \in ImportableCallables
    /\ Bind(ClassSignature, SuppliedArgs, SuppliedKwargs).raised = "none"
    /\ \E i \in DOMAIN NamedInMessage : FailsToDecode(NamedInMessage[i][1])

\* C17: when decoding an argument of a declarative construction fails, a
\* ConfigInflationError is raised that names the first failing parameter,
\* with the prefix * or ** for a variadic parameter, and carries the
\* underlying exception, and the constructor is not called
C17_InflationErrorNamesParameter ==
    DecodingFailed =>
        LET first == CHOOSE i \in DOMAIN NamedInMessage :
                         /\ FailsToDecode(NamedInMessage[i][1])
                         /\ \A j \in 1..(i - 1) : ~FailsToDecode(NamedInMessage[j][1])
        IN  /\ fn_out[1].outcome.raised = "ConfigInflationError"
            /\ fn_out[1].outcome.value.argname = NamedInMessage[first][2]
            /\ fn_out[1].outcome.value.exc # None
            /\ ~fn_out[1].outcome.value.called

\* decoding an extra keyword argument failed and the error names **kwargs
C17_Witness ==
    /\ DecodingFailed
    /\ fn_out[1].outcome.raised = "ConfigInflationError"
    /\ fn_out[1].outcome.value.argname = "**kwargs"

(***************************************************************************)
(* Properties of the dispatchers                                           *)
(***************************************************************************)
\* C18: when the parser that cli_parser(T) returned, or the decoder that
\* config_decoder(T) returned, fails on a raw value, the caller sees
\* CLITypedInputError, or ConfigTypedInputError, with the type, the raw
\* value and the exception that the parser raised
C18_FailureIsTypedInputError ==
    /\ ( /\ fn = "cli_parse"
         /\ fn_out # None
         /\ fn_out[1].stage = "called"
         /\ CallCliParser(fn_out[1].parser.value, fn_in.raw).raised # "none" )
       => /\ fn_out[1].outcome.raised = "CLITypedInputError"
          /\ fn_out[1].outcome.value.type = fn_in.type
          /\ SameVal(fn_out[1].outcome.value.value, fn_in.raw)
          /\ fn_out[1].outcome.value.exc =
                 CallCliParser(fn_out[1].parser.value, fn_in.raw).raised
    /\ ( /\ fn = "config_decode"
         /\ fn_out # None
         /\ DecodingBranches(fn_in.type, fn_in.raw) = {} )
       => /\ fn_out[1].outcome.raised = "ConfigTypedInputError"
          /\ fn_out[1].outcome.value.type = fn_in.type
          /\ SameVal(fn_out[1].outcome.value.value, fn_in.raw)
          /\ fn_out[1].outcome.value.exc = "AllFailed"

\* C19: resolving a type that no registration applies to raises the
\* undefined-for-type error of the dispatcher with the type, for cli_parser
\* and a class of the application without registration
\* CLIIOUndefinedForType; a type matched by two unrelated registrations
\* raises AmbiguousResolutionError; a handler that is returned is the one
\* most specific registration that applies
C19_UndefinedAndAmbiguousRaise ==
    (fn = "resolve" /\ fn_out # None) =>
        LET d          == fn_in.dispatcher
            t          == fn_in.type
            regs       == Registrations(d) \cup fn_in.user_regs
            applicable == regs \cap Supers(t)
        IN  /\ applicable = {}
               => fn_out[1].raised = resolve_exc_class(d) /\ fn_out[1].value = t
            /\ (d = "cli_parser" /\ t = "Custom" /\ "Custom" \notin fn_in.user_regs)
               => fn_out[1].raised = "CLIIOUndefinedForType" /\ fn_out[1].value = t
            /\ (t = "Both" /\ {"PatA", "PatB"} \subseteq fn_in.user_regs)
               => fn_out[1].raised = "AmbiguousResolutionError"
            /\ fn_out[1].raised = "none"
               => /\ fn_out[1].value \in applicable
                  /\ \A q \in applicable \ {fn_out[1].value} :
                         fn_out[1].value \notin Supers(q)

(***************************************************************************)
(* Properties of the command line arities                                  *)
(***************************************************************************)
\* an arity that stands for a variable number of tokens
IsVariableArity(a) ==
    a.action = APPEND \/ a.nargs \in {ZERO_OR_MORE, ONE_OR_MORE, OPTIONAL}

\* the least number of tokens an arity stands for
LeastTokens(a) ==
    IF a.nargs = NoneNargs \/ a.nargs = ONE_OR_MORE THEN 1
    ELSE IF a.nargs.kind = "int" THEN a.nargs.n
    ELSE 0

RECURSIVE LeastTokensOf(_)
LeastTokensOf(arities) ==
    IF arities = <<>> THEN 0
    ELSE LeastTokens(Head(arities)) + LeastTokensOf(Tail(arities))

\* the sum of the arities of the fields of a tuple of which only the last
\* may be variable: the number of tokens when all are fixed, the arity of the
\* field itself for a single field, otherwise zero-or-more or one-or-more by
\* the least number of tokens
SumOfArities(arities) ==
    LET last == arities[Len(arities)]
    IN  IF ~IsVariableArity(last) THEN IntNargs(LeastTokensOf(arities))
        ELSE IF Len(arities) = 1 THEN last.nargs
        ELSE IF LeastTokensOf(arities) = 0 THEN ZERO_OR_MORE
        ELSE ONE_OR_MORE

\* cli_nargs has been applied to a fixed tuple or namedtuple type whose
\* fields all have an arity
TupleArityComputed ==
    /\ fn = "cli_nargs"
    /\ fn_out # None
    /\ fn_in.type[1] = "Tuple" \/ is_named_tuple_class(fn_in.type[1])
    /\ EllipsisType \notin Range(Tail(fn_in.type))
    /\ \A i \in DOMAIN FieldTypes(fn_in.type) :
           cli_nargs(FieldTypes(fn_in.type)[i]).raised = "none"

\* C20: the arity of a fixed tuple or namedtuple is the sum of the arities
\* of its fields, a single-token field counting as 1; if a field other than
\* the last is variable-length or optional, or the last field is a nested
\* collection, cli_nargs raises CLIIOUndefinedForNestedTupleType
C20_TupleArityIsSumOfFields ==
    TupleArityComputed =>
        LET types   == FieldTypes(fn_in.type)
            arities == [i \in DOMAIN types |-> cli_nargs(types[i]).value]
            n       == Len(arities)
        IN  IF \/ \E i \in 1..(n - 1) : IsVariableArity(arities[i])
               \/ arities[n].action = APPEND
            THEN fn_out[1].raised = "CLIIOUndefinedForNestedTupleType"
            ELSE /\ fn_out[1].raised = "none"
                 /\ fn_out[1].value.action = NoAction
                 /\ fn_out[1].value.nargs = SumOfArities(arities)

(***************************************************************************)
(* Properties of the arities of collections and unions                     *)
(***************************************************************************)
\* cli_nargs has been applied to a collection type whose element type has an
\* arity
CollectionArityComputed ==
    /\ fn = "cli_nargs"
    /\ fn_out # None
    /\ fn_in.type[1] \in CollectionTypes
    /\ cli_nargs(fn_in.type[2]).raised = "none"

\* the element type occupies a single token
SingleToken(a) == a.nargs = NoneNargs /\ a.action = NoAction

\* C21: the arity of a collection type is zero-or-more when its element type
\* occupies a single token; for every other element type cli_nargs raises
\* CLIIOUndefinedForNestedCollectionType, so that no arity is returned for a
\* collection of collections
C21_NestedCollectionsRejected ==
    CollectionArityComputed =>
        IF SingleToken(cli_nargs(fn_in.type[2]).value)
        THEN fn_out[1] = Returned(CLINargsAction(ZERO_OR_MORE, NoAction))
        ELSE fn_out[1].raised = "CLIIOUndefinedForNestedCollectionType"

\* C21 as the code has it: one level of nesting is given the arity of the
\* element type with the action append; only an element type that already
\* carries an action, a second level of nesting, is rejected
C21_OneLevelOfNestingAppends ==
    CollectionArityComputed =>
        LET OfElement(a) ==
                IF SingleToken(a)
                THEN fn_out[1] = Returned(CLINargsAction(ZERO_OR_MORE, NoAction))
                ELSE IF a.action = NoAction
                THEN fn_out[1] = Returned(CLINargsAction(a.nargs, APPEND))
                ELSE fn_out[1].raised = "CLIIOUndefinedForNestedCollectionType"
        IN  OfElement(cli_nargs(fn_in.type[2]).value)

\* cli_nargs(List[List[int]]) has returned zero-or-more with action append,
\* and cli_nargs(List[List[List[int]]]) cannot: both cases are inputs
C21_Witness ==
    /\ CollectionArityComputed
    /\ fn_in.type = <<"List", <<"List", <<"int">>>>>>
    /\ fn_out[1] = Returned(CLINargsAction(ZERO_OR_MORE, APPEND))

\* the branches of a union type that are not NoneType
NonNoneBranches(T) == SelectSeq(Tail(T), LAMBDA t : t # NoneType)

\* cli_nargs has been applied to a union type of which at least one branch
\* is not NoneType and every such branch has an arity
UnionArityComputed ==
    /\ fn = "cli_nargs"
    /\ fn_out # None
    /\ fn_in.type[1] = "Union"
    /\ NonNoneBranches(fn_in.type) # <<>>
    /\ \A i \in DOMAIN NonNoneBranches(fn_in.type) :
           cli_nargs(NonNoneBranches(fn_in.type)[i]).raised = "none"

\* the arity up to the identifications of the claim: None and 1 are both
\* exactly one token; one-or-more, zero-or-more and optional are compatible
AgreedArity(a) ==
    <<IF a.nargs \in {NoneNargs, IntNargs(1)} THEN IntNargs(1)
      ELSE IF a.nargs \in {ONE_OR_MORE, ZERO_OR_MORE, OPTIONAL} THEN ZERO_OR_MORE
      ELSE a.nargs,
      a.action>>

\* C22: the arity of a union is defined exactly when all its branches other
\* than None agree on the normalized arity, None and 1 counting as the same
\* arity and one-or-more, zero-or-more and optional as compatible; when they
\* do not agree, and only then, CLIAmbiguousUnionType is raised
C22_UnionArityIffBranchesAgree ==
    UnionArityComputed =>
        LET types == NonNoneBranches(fn_in.type)
            agree == \A i, j \in DOMAIN types :
                         AgreedArity(cli_nargs(types[i]).value)
                             = AgreedArity(cli_nargs(types[j]).value)
        IN  /\ agree <=> fn_out[1].raised = "none"
            /\ ~agree <=> fn_out[1].raised = "CLIAmbiguousUnionType"

(***************************************************************************)
(* Properties of the TypedIO cache                                         *)
(***************************************************************************)
\* the positions at which a thread holds its TypedIO object
HoldsObject == {"init", "get", "compute", "store", "return", "done"}

\* at every point of every interleaving: what a thread took from the
\* instance dict or returned is the resolved artifact a, an object in use is
\* initialised, and a stored entry is the resolved artifact
CacheIsSound(a) ==
    /\ \A t \in Threads :
           /\ threads[t].pc # "raised"
           /\ threads[t].pc \in {"store", "return", "done"} => threads[t].value = Some(a)
           /\ threads[t].pc = "done" => threads[t].result = Some(a)
           /\ threads[t].pc \in HoldsObject \ {"init"} =>
                  /\ "type_" \in DOMAIN instance_dict[threads[t].obj]
                  /\ instance_dict[threads[t].obj]["type_"] = fn_in.type
           /\ threads[t].pc \in {"return", "done"} =>
                  /\ fn_in.attr \in DOMAIN instance_dict[threads[t].obj]
                  /\ instance_dict[threads[t].obj][fn_in.attr] = a
    /\ \A o \in DOMAIN instance_dict :
           fn_in.attr \in DOMAIN instance_dict[o] => instance_dict[o][fn_in.attr] = a
    /\ \A k \in DOMAIN lru_cache :
           /\ lru_cache[k] \in DOMAIN instance_dict
           /\ "type_" \in DOMAIN instance_dict[lru_cache[k]]
    /\ (\A t \in Threads : threads[t].pc = "done") =>
           /\ CacheKey(fn_in.type) \in DOMAIN lru_cache
           /\ fn_in.attr \in DOMAIN instance_dict[lru_cache[CacheKey(fn_in.type)]]

\* C23: when threads concurrently construct TypedIO for equal types and read
\* the same cached attribute that is not computed yet, then under every
\* interleaving each thread obtains the resolved artifact of the type, the
\* cache afterwards holds the resolved artifact, and no thread observes a
\* missing or partially stored entry; the artifact may be computed more
\* than once
C23_RacingThreadsGetResolvedArtifact ==
    fn = "TypedIO" =>
        LET Sound(res) == res.raised = "none" => CacheIsSound(res.value)
        IN  Sound(Artifact(fn_in.attr, fn_in.type))

\* two threads have used the same object, both found the attribute missing,
\* both computed it, and both have returned
C23_Witness ==
    /\ fn = "TypedIO"
    /\ Artifact(fn_in.attr, fn_in.type).raised = "none"
    /\ threads[1].obj = threads[2].obj
    /\ \A t \in {1, 2} : threads[t].pc = "done" /\ threads[t].computed

(***************************************************************************)
(* Properties of the decoding loop                                         *)
(***************************************************************************)
\* the names of the parse order that the lookup loop has found
FoundNames == {values[i].name : i \in DOMAIN values}

\* C24: every parameter of the parse order is looked up before anything is
\* decoded: when a parameter is missing from all sources, the ValueError for
\* the missing arguments is raised and no parser has been applied, no value
\* has been type checked or stored and nothing has been called; a parser is
\* applied only after every name of the parse order has been found
C24_LookupBeforeDecoding ==
    /\ (LookupDone /\ AbsentNames # {}) =>
           /\ pc = "raised"
           /\ error = MissingArgsError(SelectSeq(parse_order,
                                                 LAMBDA n : n \in AbsentNames))
           /\ parse_log = <<>>
           /\ ix = 0
           /\ final_kwargs = EmptyMap /\ final_args = <<>>
           /\ calls = <<>>
    /\ parse_log # <<>> =>
           /\ AbsentNames = {}
           /\ FoundNames = Range(parse_order)

\* a parameter is missing while another one was found in a source other
\* than the defaults and could have been decoded; the ValueError was raised
C24_Witness ==
    /\ LookupDone
    /\ pc = "raised"
    /\ AbsentNames # {}
    /\ \E i \in DOMAIN values : values[i].source # DEFAULTS
    /\ error.type = "ValueError"
    /\ parse_log = <<>>

\* the decode loop has completed and the arguments are assembled
Prepared == pc \in {"prepared", "called", "returned"}

\* the entries of values in the order of the signature
InSignatureOrder ==
    [i \in DOMAIN signature |->
        values[CHOOSE j \in DOMAIN values : values[j].name = signature[i].name]]

\* final_kwargs after the decode loop has handled the entries vals in turn
RECURSIVE KwargsAfter(_, _)
KwargsAfter(kwargs, vals) ==
    IF vals = <<>> THEN kwargs
    ELSE LET v     == Head(vals)
             param == ParamOf(signature, v.name)
         IN  KwargsAfter(
                 StoreKwargs(kwargs, v.name, param.kind,
                             ApplyParser(ParserFor(v.source, v.name, parse_config_as_cli),
                                         param.kind, v.value)),
                 Tail(vals))

\* C25: the arguments passed to the command function are the same for every
\* permutation of the parse order: they are the arguments the order of the
\* signature gives, so that a key of the decoded **kwargs mapping and the
\* decoded value of the parameter of that name never replace one another
\* according to which was processed last
C25_ArgumentsIndependentOfParseOrder ==
    (Prepared /\ OutputParamNames(signature) = {}) =>
        LET InOrder(kwargs) ==
                /\ final_kwargs = Without(kwargs, Range(positional_names))
                /\ \A i \in DOMAIN positional_names :
                       final_args[i] = kwargs[positional_names[i]]
        IN  InOrder(KwargsAfter(EmptyMap, InSignatureOrder))

\* the entries of values that the function's defaults supplied
FromDefaults == {i \in DOMAIN values : values[i].source = DEFAULTS}

\* the keys of the raw **kwargs mappings among the values
VarKeywordKeys ==
    UNION {DOMAIN values[i].value :
              i \in {j \in DOMAIN values :
                        ParamOf(signature, values[j].name).kind = VAR_KEYWORD}}

\* the value passed for the parameter of the given name and kind
Passed(name, kind) ==
    IF kind = VAR_POSITIONAL
    THEN SubSeq(final_args, Len(positional_names) + 1, Len(final_args))
    ELSE IF name \in Range(positional_names)
    THEN final_args[CHOOSE i \in DOMAIN positional_names : positional_names[i] = name]
    ELSE final_kwargs[name]

RegisteredPaths(cmds) == {p \in DOMAIN cmds : cmds[p] # None}

\* the last registration, made on the registry before, led to the registry cmds
RegisteredAsClaimed(r, cmds) ==
    LET taken == r.path \in RegisteredPaths(r.before)
                 /\ r.before[r.path] # Some(r.subcommand)
    IN  /\ r.raised = "NameError" <=> taken
        /\ r.raised = "NameError" => cmds = r.before
        /\ r.raised = "none" =>
               /\ cmds[r.path] = Some(r.subcommand)
               /\ \A p \in RegisteredPaths(r.before) \ {r.path} :
                      p \in DOMAIN cmds /\ cmds[p] = r.before[p]

\* C27: after any sequence of subcommand registrations every command path
\* holds at most one command: registering a different function at a path
\* that holds a command raises NameError and leaves the registry as it was,
\* registering at a path that is a prefix of registered commands keeps them,
\* and all_subcommands() yields every registered command exactly once with
\* its full path
C27_RegistryKeepsOneCommandPerPath ==
    fn = "registry" =>
        /\ \A i \in DOMAIN registrations :
               i = Len(registrations) /\ registrations[i].path # <<>> =>
                   RegisteredAsClaimed(registrations[i], subcommands)
        /\ \A i \in DOMAIN registrations :
               (registrations[i].raised = "none" /\ registrations[i].path # <<>>) =>
                   subcommands[registrations[i].path]
                       = Some(registrations[i].subcommand)
        /\ LET Yielded(all) ==
                   /\ Range(all) = {<<p, subcommands[p][1]>> :
                                       p \in RegisteredPaths(subcommands)}
                   /\ Len(all) = Cardinality(RegisteredPaths(subcommands))
           IN  Yielded(all_subcommands(subcommands))

\* a command was registered at a path below which a command is registered,
\* and a later registration of another function at that path raised
C27_Witness ==
    /\ fn = "registry"
    /\ Len(registrations) = 3
    /\ registrations[1].path = <<"a", "b">>
    /\ registrations[2].path = <<"a">> /\ registrations[2].raised = "none"
    /\ registrations[3].path = <<"a">> /\ registrations[3].raised = "NameError"
    /\ Len(all_subcommands(subcommands)) = 2

(***************************************************************************)
(* Properties of CommandLineInterface.run                                  *)
(***************************************************************************)
\* the main command of the interface, None when none is registered
MainCommand == subcommands[<<>>]

\* the run parsed its arguments and the main command, if it was executed
\* first, returned
Proceeded(r) ==
    /\ r.outcome # "SystemExit"
    /\ ~(r.outcome = "raised" /\ Len(r.executions) = 1
         /\ r.executions[1].handle_output = FALSE)

\* the application object of the run is the object of no other run
FreshObject(i) ==
    /\ runs[i].app_obj # None
    /\ \A j \in DOMAIN runs : j # i => runs[j].app_obj # runs[i].app_obj

\* C28: in a run of a class-defined interface, a subcommand that is not a
\* reserved builtin command, with a main command registered, has the main
\* command executed first on the freshly created application object, with
\* its output handler suppressed, and is then executed exactly once on the
\* same object; without a subcommand the main command is executed exactly
\* once; for a reserved builtin command no application object is created
\* and the main command is not executed
C28_MainThenSubcommandOnOneObject ==
    (fn = "run" /\ interface.app_cls # None) =>
        \A i \in DOMAIN runs :
            LET r == runs[i]
                invoked == r.cmd_path # None /\ subcommands[r.cmd_path] # None
                builtin == r.cmd_path \in interface.reserved_command_names
            IN  /\ (invoked /\ ~builtin /\ MainCommand # None) =>
                       /\ FreshObject(i)
                       /\ r.executions # <<>>
                       /\ r.executions[1]
                              = Execution(MainCommand[1], r.app_obj, FALSE)
                       /\ Proceeded(r) =>
                              r.executions
                                  = <<Execution(MainCommand[1], r.app_obj, FALSE),
                                      Execution(subcommands[r.cmd_path][1],
                                                r.app_obj, TRUE)>>
                /\ (r.cmd_path = None /\ Proceeded(r)) =>
                       /\ FreshObject(i)
                       /\ r.executions
                              = <<Execution(MainCommand[1], r.app_obj, TRUE)>>
                /\ (invoked /\ builtin) =>
                       /\ r.app_obj = None
                       /\ r.executions
                              = <<Execution(subcommands[r.cmd_path][1], None, TRUE)>>

\* a run of the subcommand b a after a run without subcommand, both with the
\* main command registered, and each on an object of its own
C28_Witness ==
    /\ fn = "run"
    /\ interface.app_cls # None
    /\ MainCommand = Some("__init__")
    /\ Len(runs) = 2
    /\ runs[1].cmd_path = None /\ runs[1].outcome = "returned"
    /\ runs[2].cmd_path = <<"b", "a">> /\ runs[2].outcome = "returned"
    /\ Len(runs[2].executions) = 2
    /\ runs[2].app_obj = Some(2)

(***************************************************************************)
(* Properties of the command line arguments of a command                   *)
(***************************************************************************)
ArgumentsAdded ==
    fn = "_add_arguments_from" /\ fn_out # None

\* the arity takes a number of tokens that is not fixed
VariableLengthArity(a) == a.nargs.nargs \in VARIABLE_LENGTH_NARGS

\* the actions of r that are positional, in order
PositionalActions(r) == SelectSeq(r.actions, LAMBDA a : a.positional)

\* C29: no registered command has a variable-length positional argument
\* followed by another positional argument: a non-variadic parameter whose
\* type has zero-or-more or one-or-more arity is exposed as an option, a
\* positional other than the last with variable-length arity makes the
\* registration raise ValueError, and a single trailing variable-length
\* positional is accepted
C29_NoVariableLengthPositionalBeforeLast ==
    ArgumentsAdded =>
        LET r == fn_out[1]
            pos == PositionalActions(r)
            every == PositionalActions(
                         _add_arguments_from(fn_in.params, fn_in.require_keyword_args, TRUE))
        IN  /\ r.raised = "none" =>
                   \A i \in 1..(Len(pos) - 1) : ~VariableLengthArity(pos[i])
            /\ \A i \in DOMAIN r.actions :
                   (/\ fn_in.params[i].kind \in NON_VARIADIC_KINDS
                    /\ r.actions[i].nargs.nargs \in {ZERO_OR_MORE, ONE_OR_MORE})
                       => ~r.actions[i].positional
            /\ (\A i \in 1..(Len(every) - 1) : ~VariableLengthArity(every[i]))
                   => r.raised = "none"

(***************************************************************************)
(* Properties of the addition of arities                                   *)
(***************************************************************************)
\* the arity takes a fixed number of tokens
FixedArity(a) == a.nargs = NoneNargs \/ a.nargs.kind = "int"

\* the number of tokens of fixed arities, None counted as 1
RECURSIVE TokenCount(_)
TokenCount(all_nargs) ==
    IF all_nargs = <<>> THEN 0
    ELSE NargsCount(Head(all_nargs)) + TokenCount(Tail(all_nargs))

\* C30: the addition of arities with equal action is commutative; sum() of
\* fixed arities is the total number of tokens, None counted as 1; sum() of
\* fixed arities followed by one variable-length arity is one-or-more; and
\* sum() of one arity has the normalized nargs of that arity, a lone
\* zero-or-more arity staying zero-or-more
C30_AdditionCommutesAndSumsAsDeclared ==
    /\ (fn = "__add__" /\ fn_out # None /\ fn_in.self.action = fn_in.other.action) =>
           fn_out[1] = CLINargsAdd(fn_in.other, fn_in.self)
    /\ (fn = "sum" /\ fn_out # None) =>
           LET all_nargs == fn_in.all_nargs
               n == Len(all_nargs)
               total == fn_out[1]
           IN  /\ (\A i \in 1..n : FixedArity(all_nargs[i])) =>
                      total = Returned(CLINargsAction(
                                  IntNargs(TokenCount(all_nargs)),
                                  NoAction))
               /\ (/\ n >= 2
                   /\ \A i \in 1..(n - 1) : FixedArity(all_nargs[i])
                   /\ ~FixedArity(all_nargs[n])) =>
                      total = Returned(CLINargsAction(ONE_OR_MORE, NoAction))
               /\ (n = 1 /\ ~FixedArity(all_nargs[1])) =>
                      /\ total.raised = "none"
                      /\ normalized_nargs(total.value) = normalized_nargs(all_nargs[1])

====
